---- MODULE Spec2Model ----
(***************************************************************************)
(* ATS resume analyzer: the analysis pipeline (upload validation, text     *)
(* extraction, model invocation, response normalisation, persistence,      *)
(* qualification) and the qualified-candidate workflow, in its two REST    *)
(* implementations: the DRF views (apps/analyzer/views.py) and the FastAPI *)
(* app (api/main.py).  Both work on the same two tables.                   *)
(*                                                                         *)
(* Percentages are fixed-point integers in thousandths of a percent        *)
(* (80.004 is 80004): the Python floats the handlers hold keep the third   *)
(* decimal, the DecimalField columns keep two.                             *)
(***************************************************************************)
EXTENDS Integers, Sequences, FiniteSets, TLC

VARIABLES
    sessions,      \* the AnalysisSession table
    candidates,    \* the QualifiedCandidate table
    temp,          \* the transient files in storage: name -> content
    last,          \* the last request and its response
    nupdates,      \* update requests handled
    peer,          \* the tables and storage of a second deployment run side by side
    running,       \* the handlers in flight, each with its position and locals
    session_state  \* st.session_state of the comparison view of the Streamlit UI

vars == <<sessions, candidates, temp, last, nupdates, peer, running, session_state>>

----------------------------------------------------------------------------
(* Bounds of the model *)

MaxSessions == 2
MaxUpdates == 1
MaxWorkflowUpdates == 2
MaxTempFiles == 1
MaxChunks == 3
MaxMeanwhile == 1
MaxResumes == 2
FewRows == 3
ExtraRows == 5

(* Program constants *)

QualifyThreshold == 80000
MaxUploadBytes == 5242880
MinTextLen == 50
MaxDigits == 5
DecimalPlaces == 2
HighlyQualified == 90000
DefaultMinPercentage == 80000
ListCap == 50
DefaultLimit == 10

STATUS_CHOICES == <<"NEW", "REVIEWED", "CONTACTED", "INTERVIEWING", "HIRED", "REJECTED">>

----------------------------------------------------------------------------
(* Generic helpers *)

Range(s) == {s[i] : i \in 1..Len(s)}

Abs(v) == IF v < 0 THEN -v ELSE v

RECURSIVE Pow10(_)
Pow10(n) == IF n = 0 THEN 1 ELSE 10 * Pow10(n - 1)

(* dict.get(key, default) *)
Get(d, k, default) == IF k \in DOMAIN d THEN d[k] ELSE default

EmptyDict == [k \in {} |-> 0]

----------------------------------------------------------------------------
(* JSON values as Python sees them after json.loads.  A string is a        *)
(* sequence of chunks (single characters where its spelling matters); a    *)
(* list of strings is the sequence of its items.                           *)

JInt(i) == [t |-> "int", n |-> i * 1000, s |-> <<>>]
JFloat(m) == [t |-> "float", n |-> m, s |-> <<>>]
JStr(cs) == [t |-> "str", n |-> 0, s |-> cs]
JList(items) == [t |-> "list", n |-> 0, s |-> items]
JNull == [t |-> "null", n |-> 0, s |-> <<>>]
JObject(keys) == [t |-> "dict", n |-> 0, s |-> keys]

Digits == {"0", "1", "2", "3", "4", "5", "6", "7", "8", "9"}

DigitVal(c) ==
    CASE c = "0" -> 0 [] c = "1" -> 1 [] c = "2" -> 2 [] c = "3" -> 3
      [] c = "4" -> 4 [] c = "5" -> 5 [] c = "6" -> 6 [] c = "7" -> 7
      [] c = "8" -> 8 [] c = "9" -> 9

RECURSIVE DigitsVal(_)
DigitsVal(cs) ==
    IF cs = <<>> THEN 0
    ELSE 10 * DigitsVal(SubSeq(cs, 1, Len(cs) - 1)) + DigitVal(cs[Len(cs)])

(* str.strip() on a chunk sequence: leading and trailing blanks go *)
RECURSIVE Strip(_)
Strip(cs) ==
    IF cs = <<>> THEN cs
    ELSE IF cs[1] = " " THEN Strip(Tail(cs))
    ELSE IF cs[Len(cs)] = " " THEN Strip(SubSeq(cs, 1, Len(cs) - 1))
    ELSE cs

(* float(str): [sign] digits [. digits] after stripping blanks, to the     *)
(* third decimal; any other spelling raises ValueError.                    *)
PyFloatStr(cs) ==
    LET b == Strip(cs)
        neg == b # <<>> /\ b[1] = "-"
        u == IF b # <<>> /\ b[1] \in {"-", "+"} THEN Tail(b) ELSE b
        dots == {i \in 1..Len(u) : u[i] = "."}
        ip == IF dots = {} THEN u ELSE SubSeq(u, 1, (CHOOSE i \in dots : TRUE) - 1)
        fp == IF dots = {} THEN <<>>
              ELSE SubSeq(u, (CHOOSE i \in dots : TRUE) + 1, Len(u))
        wellformed == /\ Cardinality(dots) <= 1
                      /\ Range(ip) \subseteq Digits
                      /\ Range(fp) \subseteq Digits
                      /\ Len(ip) + Len(fp) > 0
                      /\ Len(fp) <= 3
        mag == DigitsVal(ip) * 1000 + DigitsVal(fp) * Pow10(3 - Len(fp))
    IN  IF wellformed THEN [ok |-> TRUE, v |-> IF neg THEN -mag ELSE mag]
        ELSE [ok |-> FALSE, v |-> 0]

(* float(x), but a value that is no number counts as 0 *)
PyFloatOrZero(x) ==
    CASE x.t \in {"int", "float"} -> [ok |-> TRUE, v |-> x.n]
      [] x.t = "str" -> [ok |-> TRUE, v |-> PyFloatStr(x.s).v]
      [] OTHER -> [ok |-> TRUE, v |-> 0]

(* float(x) for a JSON value x *)
PyFloat(x) ==
    CASE x.t \in {"int", "float"} -> [ok |-> TRUE, v |-> x.n]
      [] x.t = "str" -> PyFloatStr(x.s)
      [] OTHER -> [ok |-> FALSE, v |-> 0]

----------------------------------------------------------------------------
(* DecimalField(max_digits = 5, decimal_places = 2): the value a float     *)
(* takes when the row is written.                                          *)

Quantize(v) ==
    LET unit == Pow10(3 - DecimalPlaces)
        a == Abs(v)
        q == a \div unit
        r == a % unit
        up == 2 * r > unit \/ (2 * r = unit /\ q % 2 = 1)
        m == (IF up THEN q + 1 ELSE q) * unit
    IN  IF v < 0 THEN -m ELSE m

(* more than max_digits digits: the write raises *)
FitsDecimal(v) == Abs(Quantize(v)) < Pow10(MaxDigits - DecimalPlaces) * 1000

----------------------------------------------------------------------------
(* Model-generated text: a sequence of chunks.  FenceJson stands for the  *)
(* three-backtick fence followed by json, Fence for the bare fence, a      *)
(* chunk naming an entry of JsonDocs is the text of that JSON document,    *)
(* " " is blank, any other chunk is prose.                                 *)

FenceJson == "[fence json]"
Fence == "[fence]"

Keys == {"match_percentage", "matching_skills", "matching_education",
         "matching_experience", "highlighted_strengths", "identified_gaps",
         "detailed_analysis"}

(* the fields a complete answer carries besides match_percentage *)
Rest ==
    [k \in Keys \ {"match_percentage"} |->
        CASE k = "matching_skills" -> JList(<<"Python", "Django">>)
          [] k = "matching_education" -> JStr(<<"BSc CS">>)
          [] k = "matching_experience" -> JStr(<<"3y backend">>)
          [] k = "highlighted_strengths" -> JList(<<"APIs">>)
          [] k = "identified_gaps" -> JList(<<"Docker">>)
          [] k = "detailed_analysis" -> JObject(<<"skills_breakdown">>)]

Full(mp) == ("match_percentage" :> mp) @@ Rest

Only(mp) == ("match_percentage" :> mp)

(* json.loads as a table: document text -> parsed value.  top is the type  *)
(* of the top-level value; d is the dict when top = "dict".                *)
JsonDocs ==
    [name \in {"{mp:72}", "{mp:80.0}", "{mp:80.004}", "{mp:80.01}", "{mp:89.99}",
               "{mp:90.0}", "{mp:150}", "{mp:-5}", "{mp:1000.5}", "{mp:str 85.5}",
               "{mp:str _80.004}", "{mp:str high}", "{mp:str 85%}", "{mp:null}",
               "{only mp:50}", "{no mp}", "{edu:null}", "{}", "[1,2]", "{body}"} |->
        CASE name = "{mp:72}" -> [top |-> "dict", d |-> Full(JInt(72))]
          [] name = "{mp:80.0}" -> [top |-> "dict", d |-> Full(JFloat(80000))]
          [] name = "{mp:80.004}" -> [top |-> "dict", d |-> Full(JFloat(80004))]
          [] name = "{mp:80.01}" -> [top |-> "dict", d |-> Full(JFloat(80010))]
          [] name = "{mp:89.99}" -> [top |-> "dict", d |-> Full(JFloat(89990))]
          [] name = "{mp:90.0}" -> [top |-> "dict", d |-> Full(JFloat(90000))]
          [] name = "{mp:150}" -> [top |-> "dict", d |-> Full(JInt(150))]
          [] name = "{mp:-5}" -> [top |-> "dict", d |-> Full(JInt(-5))]
          [] name = "{mp:1000.5}" -> [top |-> "dict", d |-> Full(JFloat(1000500))]
          [] name = "{mp:str 85.5}" ->
                [top |-> "dict", d |-> Full(JStr(<<"8", "5", ".", "5">>))]
          [] name = "{mp:str _80.004}" ->
                [top |-> "dict", d |-> Full(JStr(<<" ", "8", "0", ".", "0", "0", "4">>))]
          [] name = "{mp:str high}" -> [top |-> "dict", d |-> Full(JStr(<<"high">>))]
          [] name = "{mp:str 85%}" -> [top |-> "dict", d |-> Full(JStr(<<"8", "5", "%">>))]
          [] name = "{mp:null}" -> [top |-> "dict", d |-> Full(JNull)]
          [] name = "{only mp:50}" -> [top |-> "dict", d |-> Only(JInt(50))]
          [] name = "{no mp}" -> [top |-> "dict", d |-> Rest]
          [] name = "{edu:null}" ->
                [top |-> "dict",
                 d |-> ("matching_education" :> JNull) @@ Full(JFloat(85500))]
          [] name = "{}" -> [top |-> "dict", d |-> EmptyDict]
          [] name = "[1,2]" -> [top |-> "list", d |-> EmptyDict]
          [] name = "{body}" -> [top |-> "dict", d |-> ("output" :> JStr(<<"...">>))]]

(* json.loads(segment.strip()) *)
json_loads(seg) ==
    LET b == Strip(seg) IN
    IF Len(b) = 1 /\ b[1] \in DOMAIN JsonDocs
    THEN [ok |-> TRUE, top |-> JsonDocs[b[1]].top, d |-> JsonDocs[b[1]].d]
    ELSE [ok |-> FALSE, top |-> "none", d |-> EmptyDict]

(* text.split(sep): the first and the second piece *)
IndexOf(text, seps) ==
    IF \E i \in 1..Len(text) : text[i] \in seps
    THEN CHOOSE i \in 1..Len(text) :
            text[i] \in seps /\ \A j \in 1..(i - 1) : text[j] \notin seps
    ELSE Len(text) + 1

Piece0(text, seps) == SubSeq(text, 1, IndexOf(text, seps) - 1)

Piece1(text, seps) ==
    Piece0(SubSeq(text, IndexOf(text, seps) + 1, Len(text)), seps)

(* AIAnalyzer._extract_json: raised = TRUE is json.loads raising out of    *)
(* the method.                                                             *)
extract_json_bare(text) ==
    LET whole == json_loads(text) IN
    IF whole.ok
    THEN [raised |-> FALSE, top |-> whole.top, d |-> whole.d]
    ELSE [raised |-> FALSE, top |-> "dict", d |-> ("raw_response" :> JStr(text))]

extract_json(text) ==
    IF FenceJson \in Range(text)
    THEN LET r == json_loads(Piece0(Piece1(text, {FenceJson}), {Fence}))
         IN  [raised |-> ~r.ok, top |-> r.top, d |-> r.d]
    ELSE IF Fence \in Range(text)
    THEN LET r == json_loads(Piece1(text, {Fence}))
         IN  [raised |-> ~r.ok, top |-> r.top, d |-> r.d]
    ELSE extract_json_bare(text)

(* AIAnalyzer._structure_output: data.get on a non-dict raises, and so     *)
(* does float() of a value that is no number.                              *)
NoResult ==
    [match_percentage |-> 0, matching_skills |-> JNull, matching_education |-> JNull,
     matching_experience |-> JNull, highlighted_strengths |-> JNull,
     identified_gaps |-> JNull, detailed_analysis |-> JNull,
     raw_response |-> EmptyDict]

(* every field is read with data[key]: an absent one raises KeyError *)
structure_output_required(top, data) ==
    LET mp == PyFloat(Get(data, "match_percentage", JNull)) IN
    IF top # "dict" \/ ~mp.ok \/ ~(Keys \subseteq DOMAIN data)
    THEN [raised |-> TRUE, result |-> NoResult]
    ELSE [raised |-> FALSE,
          result |->
            [match_percentage |-> mp.v,
             matching_skills |-> data["matching_skills"],
             matching_education |-> data["matching_education"],
             matching_experience |-> data["matching_experience"],
             highlighted_strengths |-> data["highlighted_strengths"],
             identified_gaps |-> data["identified_gaps"],
             detailed_analysis |-> data["detailed_analysis"],
             raw_response |-> data]]

structure_output(top, data) ==
    LET mp == PyFloat(Get(data, "match_percentage", JInt(0))) IN
    IF top # "dict" \/ ~mp.ok
    THEN [raised |-> TRUE, result |-> NoResult]
    ELSE [raised |-> FALSE,
          result |->
            [match_percentage |-> mp.v,
             matching_skills |-> Get(data, "matching_skills", JList(<<>>)),
             matching_education |-> Get(data, "matching_education", JStr(<<>>)),
             matching_experience |-> Get(data, "matching_experience", JStr(<<>>)),
             highlighted_strengths |-> Get(data, "highlighted_strengths", JList(<<>>)),
             identified_gaps |-> Get(data, "identified_gaps", JList(<<>>)),
             detailed_analysis |-> Get(data, "detailed_analysis", JObject(<<>>)),
             raw_response |-> data]]

----------------------------------------------------------------------------
(* PDFExtractor.  A PDF is what each library makes of it: raises, or the   *)
(* length of the text it returns after strip().                            *)

(* the order in which the class defines the three methods *)
MethodsAsDefined == <<"pdfplumber", "pypdf2", "pymupdf">>

Methods == <<"pdfplumber", "pymupdf", "pypdf2">>

(* extract_with_*: the stripped text, or None when the library raises *)
extract_with(pdf, m) ==
    IF pdf[m].raises THEN [none |-> TRUE, len |-> 0]
    ELSE [none |-> FALSE, len |-> pdf[m].len]

(* a text of exactly the threshold length is taken *)
AcceptsAtThreshold(pdf, m) ==
    ~extract_with(pdf, m).none /\ extract_with(pdf, m).len >= MinTextLen

Accepts(pdf, m) == ~extract_with(pdf, m).none /\ extract_with(pdf, m).len > MinTextLen

(* PDFExtractor.extract_text: ran is the methods called, in order *)
extract_text(pdf) ==
    LET hits == {i \in 1..Len(Methods) : Accepts(pdf, Methods[i])} IN
    IF hits = {}
    THEN [ok |-> FALSE, by |-> "none", len |-> 0, ran |-> Methods]
    ELSE LET i == CHOOSE i \in hits : \A j \in hits : i <= j
         IN  [ok |-> TRUE, by |-> Methods[i], len |-> pdf[Methods[i]].len,
              ran |-> SubSeq(Methods, 1, i)]

----------------------------------------------------------------------------
(* AIAnalyzer.  A model identifier is a sequence of name chunks; a family  *)
(* pattern occurs in it when one of its chunks is the pattern.             *)

Contains(model_id, pattern) == pattern \in Range(model_id)

(* amazon.nova gets the generic payload instead of the error *)
build_payload_no_refusal(model_id) ==
    IF Contains(model_id, "anthropic") THEN [raised |-> FALSE, shape |-> "messages"]
    ELSE IF Contains(model_id, "meta.llama")
    THEN [raised |-> FALSE, shape |-> "prompt+max_gen_len"]
    ELSE IF Contains(model_id, "amazon.titan-text")
    THEN [raised |-> FALSE, shape |-> "inputText+textGenerationConfig"]
    ELSE [raised |-> FALSE, shape |-> "prompt+max_tokens"]

(* the families are tested in the opposite order *)
build_payload_reversed(model_id) ==
    IF Contains(model_id, "amazon.nova") THEN [raised |-> TRUE, shape |-> "none"]
    ELSE IF Contains(model_id, "amazon.titan-text")
    THEN [raised |-> FALSE, shape |-> "inputText+textGenerationConfig"]
    ELSE IF Contains(model_id, "meta.llama")
    THEN [raised |-> FALSE, shape |-> "prompt+max_gen_len"]
    ELSE IF Contains(model_id, "anthropic") THEN [raised |-> FALSE, shape |-> "messages"]
    ELSE [raised |-> FALSE, shape |-> "prompt+max_tokens"]

build_payload(model_id) ==
    IF Contains(model_id, "anthropic") THEN [raised |-> FALSE, shape |-> "messages"]
    ELSE IF Contains(model_id, "meta.llama")
    THEN [raised |-> FALSE, shape |-> "prompt+max_gen_len"]
    ELSE IF Contains(model_id, "amazon.titan-text")
    THEN [raised |-> FALSE, shape |-> "inputText+textGenerationConfig"]
    ELSE IF Contains(model_id, "amazon.nova") THEN [raised |-> TRUE, shape |-> "none"]
    ELSE [raised |-> FALSE, shape |-> "prompt+max_tokens"]

(* AIAnalyzer._extract_text: the generated text of a response body; a body *)
(* of no known shape is serialised whole.                                  *)
extract_body_text(body) ==
    IF body.shape \in {"content", "generation", "results"} THEN body.text
    ELSE <<"{body}">>

(* AIAnalyzer.analyze_resume_match.  invoke is what invoke_model does for  *)
(* this call: [error, body].  stage names the step that raised.            *)
analyze_resume_match(model_id, invoke) ==
    LET payload == build_payload(model_id)
        text == extract_body_text(invoke.body)
        js == extract_json(text)
        out == structure_output(js.top, js.d)
    IN  IF payload.raised
        THEN [ok |-> FALSE, stage |-> "payload", invoked |-> FALSE, text |-> <<>>,
              result |-> NoResult]
        ELSE IF invoke.error
        THEN [ok |-> FALSE, stage |-> "invoke", invoked |-> TRUE, text |-> <<>>,
              result |-> NoResult]
        ELSE IF js.raised
        THEN [ok |-> FALSE, stage |-> "extract_json", invoked |-> TRUE, text |-> text,
              result |-> NoResult]
        ELSE IF out.raised
        THEN [ok |-> FALSE, stage |-> "structure_output", invoked |-> TRUE,
              text |-> text, result |-> NoResult]
        ELSE [ok |-> TRUE, stage |-> "none", invoked |-> TRUE, text |-> text,
              result |-> out.result]

----------------------------------------------------------------------------
(* Upload validation *)

EndsWithPdf(upload) == upload.ext = ".pdf"

(* AnalysisRequestSerializer.validate_resume_file *)
validate_resume_file(upload) ==
    EndsWithPdf(upload) /\ ~(upload.size > MaxUploadBytes)

(* the check at the head of the FastAPI handler *)
fastapi_validate(upload) == EndsWithPdf(upload)

UploadAccepted(impl, upload) ==
    IF impl = "drf" THEN validate_resume_file(upload) ELSE fastapi_validate(upload)

----------------------------------------------------------------------------
(* The two tables.  A row's id is its position: rows are never deleted by  *)
(* the REST layer.  created_at and qualification_date (auto_now_add) are   *)
(* logical times: a later row has a later one.                             *)

(* a TextField or JSONField column is NOT NULL *)
NotNull(v) == v.t # "null"

SessionWritable(result) ==
    /\ FitsDecimal(result.match_percentage)
    /\ NotNull(result.matching_skills)
    /\ NotNull(result.matching_education)
    /\ NotNull(result.matching_experience)
    /\ NotNull(result.highlighted_strengths)
    /\ NotNull(result.identified_gaps)

(* AnalysisSession.objects.create(...) *)
NewSession(id, jd, resume_text, result) ==
    [id |-> id,
     job_description |-> jd,
     resume_text |-> resume_text,
     match_percentage |-> Quantize(result.match_percentage),
     matching_skills |-> result.matching_skills,
     matching_education |-> result.matching_education,
     matching_experience |-> result.matching_experience,
     highlighted_strengths |-> result.highlighted_strengths,
     identified_gaps |-> result.identified_gaps,
     ai_response |-> result.raw_response,
     created_at |-> id]

(* the promotion test of analyze_resume: session.match_percentage is still *)
(* the float handed to create(), not the stored decimal                    *)
Qualifies(result) == result.match_percentage > QualifyThreshold

(* the promotion leaves the summaries and the gaps to their defaults *)
NewCandidateScoreOnly(id, session_id, jd, resume_text, result) ==
    [id |-> id,
     analysis_session |-> session_id,
     resume_text |-> resume_text,
     job_description |-> jd,
     match_percentage |-> Quantize(result.match_percentage),
     matching_skills |-> result.matching_skills,
     matching_education |-> JStr(<<>>),
     matching_experience |-> JStr(<<>>),
     highlighted_strengths |-> result.highlighted_strengths,
     identified_gaps |-> JList(<<>>),
     qualification_date |-> id,
     is_contacted |-> FALSE,
     notes |-> <<>>,
     status |-> "NEW"]

(* QualifiedCandidate.objects.create(analysis_session = session, ...) *)
NewCandidate(id, session_id, jd, resume_text, result) ==
    [id |-> id,
     analysis_session |-> session_id,
     resume_text |-> resume_text,
     job_description |-> jd,
     match_percentage |-> Quantize(result.match_percentage),
     matching_skills |-> result.matching_skills,
     matching_education |-> result.matching_education,
     matching_experience |-> result.matching_experience,
     highlighted_strengths |-> result.highlighted_strengths,
     identified_gaps |-> result.identified_gaps,
     qualification_date |-> id,
     is_contacted |-> FALSE,
     notes |-> <<>>,
     status |-> "NEW"]

(* AnalysisResponse(...) of the FastAPI app validates its fields *)
ResponseValid(result) ==
    /\ result.match_percentage >= 0
    /\ result.match_percentage <= 100 * 1000
    /\ result.matching_skills.t = "list"
    /\ result.matching_education.t = "str"
    /\ result.matching_experience.t = "str"
    /\ result.highlighted_strengths.t = "list"
    /\ result.identified_gaps.t = "list"

(* the row is built and never saved *)
InsertSessionUnsaved(rows, row) == rows

(* the row is written over the newest stored one *)
OverwriteSession(rows, row) ==
    IF rows = <<>> THEN <<row>> ELSE [rows EXCEPT ![Len(rows)] = row]

InsertSession(rows, row) == Append(rows, row)

(* the promotion writes the row twice *)
InsertCandidateTwice(rows, row) == Append(Append(rows, row), row)

InsertCandidate(rows, row) == Append(rows, row)

----------------------------------------------------------------------------
(* Requests *)

Impls == {"drf", "fastapi"}

AllUploads ==
    {[ext |-> ".pdf", size |-> MaxUploadBytes],
     [ext |-> ".pdf", size |-> MaxUploadBytes + 1],
     [ext |-> ".pdf", size |-> 1024],
     [ext |-> ".txt", size |-> 1024],
     [ext |-> ".PDF", size |-> 1024]}

FewUploads == {[ext |-> ".pdf", size |-> 1024], [ext |-> ".txt", size |-> 1024]}

JobDescription == <<"Backend engineer, Python">>

Lib(raises, len) == [raises |-> raises, len |-> len]

Pdf(a, b, c) == [pdfplumber |-> a, pymupdf |-> b, pypdf2 |-> c]

LibOutcomes ==
    {Lib(TRUE, 0), Lib(FALSE, 0), Lib(FALSE, MinTextLen), Lib(FALSE, MinTextLen + 1)}

(* no library can read it *)
NoPdf == Pdf(Lib(TRUE, 0), Lib(TRUE, 0), Lib(TRUE, 0))

AllPdfs == {Pdf(a, b, c) : a \in LibOutcomes, b \in LibOutcomes, c \in LibOutcomes}

FewPdfs ==
    {Pdf(Lib(FALSE, MinTextLen + 1), Lib(FALSE, MinTextLen + 1), Lib(FALSE, MinTextLen + 1)),
     Pdf(Lib(TRUE, 0), Lib(FALSE, MinTextLen), Lib(FALSE, 0))}

ModelIds ==
    {<<"anthropic", ".claude-3-sonnet">>, <<"amazon.nova", "-pro-v1:0">>}

AllModelIds ==
    ModelIds
    \cup {<<"us.", "amazon.nova", "-lite-v1:0">>, <<"meta.llama", "3-70b-instruct-v1:0">>,
          <<"amazon.titan-text", "-express-v1">>, <<"mistral.mistral-7b-instruct-v0:2">>,
          <<"anthropic", "-via-", "amazon.nova">>}

AllTexts ==
    UNION {{<<doc>>,
            <<FenceJson, doc, Fence>>,
            <<Fence, doc, Fence>>,
            <<"Here is the analysis:", FenceJson, " ", doc, " ", Fence, "Done.">>,
            <<FenceJson, doc>>,
            <<Fence, "json5", doc, Fence>>,
            <<"Result:", doc>>} : doc \in DOMAIN JsonDocs}
    \cup {<<>>, <<"I cannot help with that.">>,
          <<FenceJson, "not json", Fence>>, <<Fence, "not json", Fence>>}

FewTexts ==
    {<<FenceJson, "{mp:72}", Fence>>, <<"{mp:80.004}">>,
     <<FenceJson, "not json", Fence>>}

TransportError == [error |-> TRUE, body |-> [shape |-> "none", text |-> <<>>]]

Reply(shape, text) == [error |-> FALSE, body |-> [shape |-> shape, text |-> text]]

AllInvocations ==
    {TransportError, Reply("unknown", <<>>)}
    \cup {Reply("content", t) : t \in AllTexts}
    \cup {Reply(sh, <<"{mp:72}">>) : sh \in {"generation", "results"}}

FewInvocations == {TransportError} \cup {Reply("content", t) : t \in FewTexts}

(* The response body of a successful analyze request.  The DRF view passes *)
(* its dict through AnalysisResponseSerializer; the FastAPI handler builds  *)
(* an AnalysisResponse, which has no is_qualified field and drops the       *)
(* keyword.  processing_time and created_at are not modelled.               *)
ResponseData(session_id, result, is_qualified) ==
    [session_id |-> session_id,
     match_percentage |-> result.match_percentage,
     matching_skills |-> result.matching_skills,
     matching_education |-> result.matching_education,
     matching_experience |-> result.matching_experience,
     highlighted_strengths |-> result.highlighted_strengths,
     identified_gaps |-> result.identified_gaps,
     is_qualified |-> is_qualified]

AnalysisResponseSerializerFields ==
    {"session_id", "match_percentage", "matching_skills", "matching_education",
     "matching_experience", "highlighted_strengths", "identified_gaps", "is_qualified"}

AnalysisResponseFields ==
    {"session_id", "match_percentage", "matching_skills", "matching_education",
     "matching_experience", "highlighted_strengths", "identified_gaps"}

ResponseFields(impl) ==
    IF impl = "drf" THEN AnalysisResponseSerializerFields ELSE AnalysisResponseFields

ResponseBody(impl, data) == [f \in ResponseFields(impl) |-> data[f]]

ErrorBody(detail) == [error |-> detail]

(* HTTP_201_CREATED in the DRF view; the FastAPI route declares no          *)
(* status_code and answers 200                                             *)
SuccessCode(impl) == IF impl = "drf" THEN 201 ELSE 200

(* Storage maps the name of a transient file to its content, the uploaded *)
(* PDF.                                                                    *)
NoFiles == [name \in {} |-> NoPdf]

(* the file is saved under the name of the upload, whatever is stored *)
UploadNameAsFile(files) == 1

(* the name of a new transient file: no file in storage has it *)
NewTempFile(files) ==
    CHOOSE name \in 1..(Cardinality(DOMAIN files) + 1) :
        /\ name \notin DOMAIN files
        /\ \A other \in 1..(name - 1) : other \in DOMAIN files

(* default_storage.save / NamedTemporaryFile(delete = False) and write *)
StoreTempFile(files, file, content) ==
    [name \in DOMAIN files \cup {file} |-> IF name = file THEN content ELSE files[name]]

(* the clean-up is skipped *)
LeaveTempFile(files, file) == files

(* default_storage.delete / os.unlink *)
DeleteTempFile(files, file) == [name \in DOMAIN files \ {file} |-> files[name]]

(* the file as the PDF libraries find it at its path: a missing file makes *)
(* every library raise                                                     *)
ReadTempFile(files, file) == IF file \in DOMAIN files THEN files[file] ELSE NoPdf

(* The steps a request ran, in the order the handler runs them *)
ExtractSteps(ran) == [i \in 1..Len(ran) |-> ran[i]]

(* a failed invocation is tried once more *)
MatchStepsRetried(an) ==
    CASE an.stage = "payload" -> <<"build_payload">>
      [] an.stage = "invoke" -> <<"build_payload", "invoke_model", "invoke_model">>
      [] an.stage = "extract_json" -> <<"build_payload", "invoke_model", "extract_json">>
      [] OTHER -> <<"build_payload", "invoke_model", "extract_json", "structure_output">>

MatchSteps(an) ==
    CASE an.stage = "payload" -> <<"build_payload">>
      [] an.stage = "invoke" -> <<"build_payload", "invoke_model">>
      [] an.stage = "extract_json" -> <<"build_payload", "invoke_model", "extract_json">>
      [] OTHER -> <<"build_payload", "invoke_model", "extract_json", "structure_output">>

(* what the last request was and how it was answered: code is the HTTP    *)
(* status, stage the step that failed, ran the extraction methods called,  *)
(* session_id the id in the response body, new_sessions and new_candidates *)
(* the rows the request added to the tables, file its transient file,      *)
(* steps the steps it ran and body the response body                       *)
NotAnalyzed ==
    [ok |-> FALSE, stage |-> "none", invoked |-> FALSE, text |-> <<>>, result |-> NoResult]

AnalyzeLast(impl, upload, pdf, model_id, file, code, stage, ran, an, steps, body, new_sessions, new_candidates) ==
    [op |-> "analyze", impl |-> impl, upload |-> upload, pdf |-> pdf,
     model_id |-> model_id, file |-> file, code |-> code, stage |-> stage,
     ran |-> ran, invoked |-> an.invoked, text |-> an.text, result |-> an.result,
     steps |-> steps, body |-> body,
     session_id |-> IF "session_id" \in DOMAIN body THEN body.session_id ELSE 0,
     new_sessions |-> new_sessions, new_candidates |-> new_candidates]

(* the request is refused before the handler body *)
Refused(impl, upload) ==
    AnalyzeLast(impl, upload, NoPdf, <<>>, 0, 400, "validation", <<>>, NotAnalyzed,
                <<"validate">>, ErrorBody("validation"), <<>>, <<>>)

(* the except clause of the handler: 500, Analysis failed: <detail> *)
Failed(impl, upload, pdf, model_id, file, stage, ran, an, steps) ==
    AnalyzeLast(impl, upload, pdf, model_id, file, 500, stage, ran, an, steps,
                ErrorBody(stage), <<>>, <<>>)

(* what a request leaves behind: the two tables, the storage of transient  *)
(* files and its answer                                                    *)
Outcome(ss, cs, files, answer) ==
    [sessions |-> ss, candidates |-> cs, temp |-> files, last |-> answer]

(* the handler from objects.create() on: the session row, the promotion,   *)
(* the release of the transient file and the response                      *)
Persist(impl, upload, pdf, model_id, file, ex, an, matched, ss, cs, files) ==
    LET sid == Len(ss) + 1
        cid == Len(cs) + 1
        resume_text == [by |-> ex.by, len |-> ex.len]
        is_qualified == Qualifies(an.result)
        stored == InsertSession(ss, NewSession(sid, JobDescription, resume_text, an.result))
        promoted ==
            IF is_qualified
            THEN InsertCandidate(cs, NewCandidate(cid, sid, JobDescription, resume_text,
                                                  an.result))
            ELSE cs
        steps == matched \o <<"create_session", "qualify">>
                    \o (IF is_qualified THEN <<"create_candidate">> ELSE <<>>)
                    \o <<"delete_temp", "respond">>
    IN  Outcome(stored, promoted, DeleteTempFile(StoreTempFile(files, file, pdf), file),
            IF impl = "drf" \/ ResponseValid(an.result)
            THEN AnalyzeLast(impl, upload, pdf, model_id, file, SuccessCode(impl), "none",
                    ex.ran, an, steps,
                    ResponseBody(impl, ResponseData(sid, an.result, is_qualified)),
                    SubSeq(stored, sid, Len(stored)), SubSeq(promoted, cid, Len(promoted)))
            ELSE AnalyzeLast(impl, upload, pdf, model_id, file, 500, "response",
                    ex.ran, an, steps, ErrorBody("response"),
                    SubSeq(stored, sid, Len(stored)), SubSeq(promoted, cid, Len(promoted))))

(* the handler from analyze_resume_match() on *)
Match(impl, upload, pdf, model_id, file, ex, an, saved, ss, cs, files) ==
    IF ~an.ok
    THEN Outcome(ss, cs, StoreTempFile(files, file, pdf),
            Failed(impl, upload, pdf, model_id, file, an.stage, ex.ran, an,
                   saved \o MatchSteps(an)))
    ELSE IF ~SessionWritable(an.result)
    THEN Outcome(ss, cs, StoreTempFile(files, file, pdf),
            Failed(impl, upload, pdf, model_id, file, "create_session", ex.ran, an,
                   saved \o MatchSteps(an) \o <<"create_session">>))
    ELSE Persist(impl, upload, pdf, model_id, file, ex, an, saved \o MatchSteps(an),
                 ss, cs, files)

(* the handler from the transient file on *)
Extract(impl, upload, pdf, model_id, invoke, file, ex, ss, cs, files) ==
    IF ~ex.ok
    THEN Outcome(ss, cs, StoreTempFile(files, file, pdf),
            Failed(impl, upload, pdf, model_id, file, "extract_text", ex.ran, NotAnalyzed,
                   <<"validate", "save_temp">> \o ExtractSteps(ex.ran)))
    ELSE Match(impl, upload, pdf, model_id, file, ex, analyze_resume_match(model_id, invoke),
               <<"validate", "save_temp">> \o ExtractSteps(ex.ran), ss, cs, files)

(* analyze_resume of either implementation, start to response, on the      *)
(* tables ss and cs and the storage files                                  *)
analyze_outcome(impl, upload, pdf, model_id, invoke, ss, cs, files) ==
    IF ~UploadAccepted(impl, upload)
    THEN Outcome(ss, cs, files, Refused(impl, upload))
    ELSE Extract(impl, upload, pdf, model_id, invoke, NewTempFile(files),
                 extract_text(ReadTempFile(StoreTempFile(files, NewTempFile(files), pdf),
                                           NewTempFile(files))),
                 ss, cs, files)

(* the request reaches invoke_model *)
Invokes(impl, upload, pdf, model_id) ==
    /\ UploadAccepted(impl, upload)
    /\ extract_text(pdf).ok
    /\ ~build_payload(model_id).raised

(* one analyze request with any input of the given sets; the inputs a      *)
(* request never reads are not enumerated                                  *)
Analyze(uploads, pdfs, model_ids, invocations) ==
    \E impl \in Impls, upload \in uploads :
    \E pdf \in IF UploadAccepted(impl, upload) THEN pdfs ELSE {NoPdf} :
    \E model_id \in IF UploadAccepted(impl, upload) THEN model_ids ELSE {<<>>} :
    \E invoke \in IF Invokes(impl, upload, pdf, model_id) THEN invocations
                   ELSE {TransportError} :
    \E o \in {analyze_outcome(impl, upload, pdf, model_id, invoke,
                              sessions, candidates, temp)} :
        /\ Len(o.sessions) <= MaxSessions
        /\ Cardinality(DOMAIN o.temp) <= MaxTempFiles
        /\ sessions' = o.sessions
        /\ candidates' = o.candidates
        /\ temp' = o.temp
        /\ last' = o.last

----------------------------------------------------------------------------
(* Updating a qualified candidate.  A request body is a function from the  *)
(* names of the fields it supplies to their values.                        *)

(* str.upper() on the status spellings of the model *)
Upper(st) ==
    CASE st = "contacted" -> "CONTACTED"
      [] st = "archived" -> "ARCHIVED"
      [] OTHER -> st

(* QualifiedCandidateSerializer: every field of Meta.fields that is not in *)
(* read_only_fields is writable (resume_file is not modelled)              *)
SerializerFields ==
    {"id", "analysis_session_id", "resume_text", "job_description",
     "match_percentage", "matching_skills", "matching_education",
     "matching_experience", "highlighted_strengths", "identified_gaps",
     "qualification_date", "is_contacted", "notes", "status", "is_highly_qualified"}

ReadOnlyFields == {"id", "analysis_session_id", "qualification_date", "is_highly_qualified"}

WritableFields == SerializerFields \ ReadOnlyFields

(* field validation of the serializer *)
FieldValid(f, v) ==
    CASE f = "status" -> v \in Range(STATUS_CHOICES)
      [] f = "match_percentage" ->
            /\ v % Pow10(3 - DecimalPlaces) = 0
            /\ Abs(v) < Pow10(MaxDigits - DecimalPlaces) * 1000
      [] OTHER -> TRUE

(* to_internal_value: a CharField trims surrounding whitespace *)
Internal(f, v) == IF f = "notes" THEN Strip(v) ELSE v

Written(body) == DOMAIN body \cap WritableFields

drf_is_valid(body) == \A f \in Written(body) : FieldValid(f, body[f])

(* serializer.save(): each validated field is set, the rest keep their value *)
drf_save(row, body) ==
    [f \in DOMAIN row |-> IF f \in Written(body) THEN Internal(f, body[f]) ELSE row[f]]

(* the three Form(None) parameters of the FastAPI handler; an empty form   *)
(* value reaches the handler as None                                       *)
FormValue(body, f, empty) ==
    IF f \in DOMAIN body /\ body[f] # empty THEN [given |-> TRUE, v |-> body[f]]
    ELSE [given |-> FALSE, v |-> empty]

(* the handler assigns notes without testing for None *)
fastapi_save_unguarded(row, body) ==
    LET st == FormValue(body, "status", "")
        nt == FormValue(body, "notes", <<>>)
    IN  [row EXCEPT
            !.status = IF st.given THEN Upper(st.v) ELSE @,
            !.is_contacted = IF "is_contacted" \in DOMAIN body
                             THEN body["is_contacted"] ELSE @,
            !.notes = nt.v]

fastapi_save(row, body) ==
    LET st == FormValue(body, "status", "")
        nt == FormValue(body, "notes", <<>>)
    IN  [row EXCEPT
            !.status = IF st.given THEN Upper(st.v) ELSE @,
            !.is_contacted = IF "is_contacted" \in DOMAIN body
                             THEN body["is_contacted"] ELSE @,
            !.notes = IF nt.given THEN nt.v ELSE @]

Exists(rows, id) == id \in 1..Len(rows)

(* The id of a URL is the position of a row, a UUID that names no row, or  *)
(* text that is no UUID.                                                   *)
NotAUuid == 0

IsUuid(id) == id # NotAUuid

UrlIds(rows) == {NotAUuid} \cup 1..(Len(rows) + 1)

(* objects.get(id = ...) behind the route.  The <uuid:...> converter of the *)
(* DRF urls matches no other text, so the resolver answers 404; the FastAPI *)
(* handlers take any str, UUIDField.to_python raises ValidationError on it, *)
(* which is not DoesNotExist, and the request ends in 500.                  *)
LookupCode(impl, rows, id) ==
    IF ~IsUuid(id) THEN (IF impl = "drf" THEN 404 ELSE 500)
    ELSE IF Exists(rows, id) THEN 200
    ELSE 404

UpdateLast(impl, code, id, body) ==
    [op |-> "update", impl |-> impl, code |-> code, id |-> id, body |-> body]

(* update_qualified_candidate of either implementation on the table cs:   *)
(* the table it leaves and its answer                                      *)
update_outcome(impl, cs, id, body) ==
    IF LookupCode(impl, cs, id) # 200
    THEN [candidates |-> cs, last |-> UpdateLast(impl, LookupCode(impl, cs, id), id, body)]
    ELSE IF impl = "drf" /\ ~drf_is_valid(body)
    THEN [candidates |-> cs, last |-> UpdateLast(impl, 400, id, body)]
    ELSE [candidates |-> [cs EXCEPT ![id] = IF impl = "drf" THEN drf_save(@, body)
                                            ELSE fastapi_save(@, body)],
          last |-> UpdateLast(impl, 200, id, body)]

(* one update request with any body of the given set *)
Update(bodies) ==
    \E impl \in Impls, id \in UrlIds(candidates), body \in bodies :
    \E o \in {update_outcome(impl, candidates, id, body)} :
        /\ candidates' = o.candidates
        /\ last' = o.last

----------------------------------------------------------------------------
(* Reading.  A query is a function from the names of the query parameters  *)
(* it supplies to their text.                                              *)

ReadLast(op, impl, code, request, body) ==
    [op |-> op, impl |-> impl, code |-> code, request |-> request, body |-> body]

(* the property tests for more than 90, as its docstring says *)
is_highly_qualified_above(row) == row.match_percentage > HighlyQualified

(* QualifiedCandidate.is_highly_qualified *)
is_highly_qualified(row) == row.match_percentage >= HighlyQualified

(* Meta.ordering = ['-match_percentage', '-qualification_date'] *)
Precedes(a, b) ==
    \/ a.match_percentage > b.match_percentage
    \/ a.match_percentage = b.match_percentage
         /\ a.qualification_date > b.qualification_date

RECURSIVE OrderBy(_)
OrderBy(rows) ==
    IF rows = {} THEN <<>>
    ELSE LET first == CHOOSE r \in rows : \A q \in rows \ {r} : Precedes(r, q)
         IN  <<first>> \o OrderBy(rows \ {first})

(* queryset[:n] *)
Slice(rows, n) == SubSeq(rows, 1, IF Len(rows) < n THEN Len(rows) ELSE n)

(* str.lower() on the flag spellings of the model *)
Lower(text) ==
    CASE text = "True" -> "true"
      [] text = "TRUE" -> "true"
      [] OTHER -> text

(* the status filter is dropped *)
ByStatusIgnored(rows, query) == rows

(* if status: queryset.filter(status = status.upper()) *)
ByStatus(rows, query) ==
    IF "status" \in DOMAIN query /\ query.status # ""
    THEN {r \in rows : r.status = Upper(query.status)}
    ELSE rows

(* float(request.query_params.get('min_percentage', 80)) and the float     *)
(* Query(80.0) parameter                                                   *)
MinPercentage(query) ==
    IF "min_percentage" \in DOMAIN query THEN PyFloatStr(query.min_percentage)
    ELSE [ok |-> TRUE, v |-> DefaultMinPercentage]

ByMin(rows, min) == {r \in rows : r.match_percentage >= min}

(* the DRF view skips the filter when float() raises ValueError *)
drf_by_min(rows, query) ==
    IF MinPercentage(query).ok THEN ByMin(rows, MinPercentage(query).v) ELSE rows

(* highly_qualified and highly_qualified.lower() == 'true' *)
drf_flag(query) ==
    "highly_qualified" \in DOMAIN query /\ Lower(query.highly_qualified) = "true"

(* the bool Query(False) parameter as pydantic reads it *)
TrueSpellings == {"true", "True", "TRUE", "1", "yes", "on"}

FalseSpellings == {"false", "False", "FALSE", "0", "no", "off"}

fastapi_flag(query) ==
    "highly_qualified" \in DOMAIN query /\ query.highly_qualified \in TrueSpellings

(* a query the FastAPI parameter validation refuses (422) *)
fastapi_query_valid(query) ==
    /\ MinPercentage(query).ok
    /\ "highly_qualified" \in DOMAIN query =>
            query.highly_qualified \in TrueSpellings \cup FalseSpellings

ByHighlyQualified(rows, flag) == IF flag THEN ByMin(rows, HighlyQualified) ELSE rows

(* QualifiedCandidateListSerializer *)
drf_list_row(row) ==
    [id |-> row.id, match_percentage |-> row.match_percentage,
     qualification_date |-> row.qualification_date, status |-> row.status,
     is_contacted |-> row.is_contacted,
     is_highly_qualified |-> is_highly_qualified(row)]

(* the dict the FastAPI handler builds for each row *)
fastapi_list_row(row) ==
    [id |-> row.id, match_percentage |-> row.match_percentage,
     matching_skills |-> row.matching_skills,
     matching_education |-> row.matching_education,
     matching_experience |-> row.matching_experience,
     highlighted_strengths |-> row.highlighted_strengths,
     identified_gaps |-> row.identified_gaps,
     status |-> row.status, is_contacted |-> row.is_contacted,
     qualification_date |-> row.qualification_date,
     is_highly_qualified |-> is_highly_qualified(row)]

(* list_qualified_candidates of the DRF view: no slice *)
drf_list(rows, query) ==
    OrderBy(ByHighlyQualified(drf_by_min(ByStatus(rows, query), query), drf_flag(query)))

(* list_qualified_candidates of the FastAPI app: queryset[:50] *)
fastapi_list(rows, query) ==
    Slice(OrderBy(ByHighlyQualified(
                    ByMin(ByStatus(rows, query), MinPercentage(query).v),
                    fastapi_flag(query))),
          ListCap)

(* the answer of list_qualified_candidates of either implementation *)
list_answer(impl, cs, query) ==
    IF impl = "drf"
    THEN ReadLast("list_qualified_candidates", impl, 200, query,
            LET listed == drf_list(Range(cs), query)
            IN  [i \in 1..Len(listed) |-> drf_list_row(listed[i])])
    ELSE IF ~fastapi_query_valid(query)
    THEN ReadLast("list_qualified_candidates", impl, 422, query, <<>>)
    ELSE ReadLast("list_qualified_candidates", impl, 200, query,
            LET listed == fastapi_list(Range(cs), query)
            IN  [i \in 1..Len(listed) |-> fastapi_list_row(listed[i])])

ListCandidates(queries) ==
    \E impl \in Impls, query \in queries :
        /\ last' = list_answer(impl, candidates, query)
        /\ UNCHANGED <<sessions, candidates, temp, nupdates, peer, running, session_state>>

NoQuery == [f \in {} |-> 0]

OptParam(f, values) == {NoQuery} \cup {(f :> v) : v \in values}

AllQueries ==
    {s @@ m @@ h :
        s \in OptParam("status", {"NEW", "contacted", "CONTACTED", ""}),
        m \in OptParam("min_percentage",
                       {<<"9", "0">>, <<"8", "5", ".", "5">>, <<"5", "0">>, <<"a", "b", "c">>}),
        h \in OptParam("highly_qualified", {"true", "True", "false", "1", "maybe"})}

FewQueries == {NoQuery, ("status" :> "contacted") @@ ("highly_qualified" :> "true")}

(* AnalysisSessionSerializer, and the dict of the FastAPI handler *)
SessionView(impl, row) ==
    IF impl = "drf" THEN row
    ELSE [session_id |-> row.id, match_percentage |-> row.match_percentage,
          matching_skills |-> row.matching_skills,
          matching_education |-> row.matching_education,
          matching_experience |-> row.matching_experience,
          highlighted_strengths |-> row.highlighted_strengths,
          identified_gaps |-> row.identified_gaps, created_at |-> row.created_at]

(* the answer of get_analysis of either implementation *)
get_analysis_answer(impl, ss, id) ==
    IF LookupCode(impl, ss, id) = 200
    THEN ReadLast("get_analysis", impl, 200, id, SessionView(impl, ss[id]))
    ELSE ReadLast("get_analysis", impl, LookupCode(impl, ss, id), id, ErrorBody("not found"))

get_analysis ==
    /\ \E impl \in Impls, id \in UrlIds(sessions) :
            last' = get_analysis_answer(impl, sessions, id)
    /\ UNCHANGED <<sessions, candidates, temp, nupdates, peer, running, session_state>>

(* Meta.ordering = ['-created_at'] *)
RECURSIVE Newest(_)
Newest(rows) ==
    IF rows = <<>> THEN <<>>
    ELSE <<rows[Len(rows)]>> \o Newest(SubSeq(rows, 1, Len(rows) - 1))

(* list_analyses: the DRF view lists every session in full, the FastAPI    *)
(* handler the first limit ones in short                                   *)
list_analyses_answer(impl, ss, limit) ==
    IF impl = "drf"
    THEN ReadLast("list_analyses", impl, 200, DefaultLimit, Newest(ss))
    ELSE ReadLast("list_analyses", impl, 200, limit,
            LET listed == Slice(Newest(ss), limit)
            IN  [i \in 1..Len(listed) |->
                    [session_id |-> listed[i].id,
                     match_percentage |-> listed[i].match_percentage,
                     created_at |-> listed[i].created_at]])

list_analyses ==
    /\ \E impl \in Impls, limit \in {1, DefaultLimit} :
            last' = list_analyses_answer(impl, sessions, limit)
    /\ UNCHANGED <<sessions, candidates, temp, nupdates, peer, running, session_state>>

(* QualifiedCandidateSerializer, and the dict of the FastAPI handler *)
CandidateView(impl, row) ==
    IF impl = "drf"
    THEN [f \in (DOMAIN row \ {"analysis_session"})
                \cup {"analysis_session_id", "is_highly_qualified"} |->
            CASE f = "analysis_session_id" -> row.analysis_session
              [] f = "is_highly_qualified" -> is_highly_qualified(row)
              [] OTHER -> row[f]]
    ELSE [f \in (DOMAIN row \ {"analysis_session", "resume_text", "job_description"})
                \cup {"analysis_session_id", "is_highly_qualified"} |->
            CASE f = "analysis_session_id" -> row.analysis_session
              [] f = "is_highly_qualified" -> is_highly_qualified(row)
              [] OTHER -> row[f]]

(* the answer of get_qualified_candidate of either implementation *)
get_qualified_candidate_answer(impl, cs, id) ==
    IF LookupCode(impl, cs, id) = 200
    THEN ReadLast("get_qualified_candidate", impl, 200, id, CandidateView(impl, cs[id]))
    ELSE ReadLast("get_qualified_candidate", impl, LookupCode(impl, cs, id), id,
                  ErrorBody("not found"))

get_qualified_candidate ==
    /\ \E impl \in Impls, id \in UrlIds(candidates) :
            last' = get_qualified_candidate_answer(impl, candidates, id)
    /\ UNCHANGED <<sessions, candidates, temp, nupdates, peer, running, session_state>>

Count(rows) == Cardinality(rows)

(* the answer of qualified_candidates_stats of either implementation, all  *)
(* of its queries reading the same rows                                    *)
stats_answer(impl, rows) ==
    ReadLast("qualified_candidates_stats", impl, 200, NoQuery,
        [total_qualified_candidates |-> Count(rows),
         highly_qualified_count |-> Count(ByMin(rows, HighlyQualified)),
         status_breakdown |->
            [st \in Range(STATUS_CHOICES) |-> Count({r \in rows : r.status = st})],
         contacted_count |-> Count({r \in rows : r.is_contacted}),
         not_contacted_count |-> Count({r \in rows : ~r.is_contacted})])

qualified_candidates_stats ==
    /\ \E impl \in Impls : last' = stats_answer(impl, Range(candidates))
    /\ UNCHANGED <<sessions, candidates, temp, nupdates, peer, running, session_state>>

list_qualified_candidates == ListCandidates(FewQueries)

----------------------------------------------------------------------------
(* Update request bodies and the requests of the general specification *)

NoBody == [f \in {} |-> 0]

Statuses == {"CONTACTED", "contacted"}

Flags == {TRUE, FALSE}

Notes == {<<"call Monday">>, <<>>}

Opt(f, values) == {NoBody} \cup {(f :> v) : v \in values}

(* every body over status, is_contacted and notes, each supplied or not,   *)
(* with or without a match_percentage, and some bodies of one field        *)
AllBodies ==
    {s @@ c @@ n @@ m :
        s \in Opt("status", Statuses), c \in Opt("is_contacted", Flags),
        n \in Opt("notes", Notes), m \in Opt("match_percentage", {50000})}
    \cup {("status" :> "archived"), ("status" :> ""),
          ("notes" :> <<"call Monday", " ">>),
          ("match_percentage" :> 80004),
          ("matching_education" :> JStr(<<"PhD">>)),
          ("analysis_session_id" :> 2)}

FewBodies == {("status" :> "CONTACTED"), ("match_percentage" :> 50000)}

update_qualified_candidate ==
    /\ nupdates < MaxUpdates
    /\ nupdates' = nupdates + 1
    /\ Update(FewBodies)
    /\ UNCHANGED <<sessions, temp, peer, running, session_state>>

analyze_resume ==
    /\ Analyze(FewUploads, FewPdfs, ModelIds, FewInvocations)
    /\ UNCHANGED <<nupdates, peer, running, session_state>>

(* no second deployment, no handler in flight *)
NoPeer == [sessions |-> <<>>, candidates |-> <<>>, temp |-> NoFiles]

Idle == <<>>

(* the comparison view has not been opened *)
NoSessionState == <<>>

Init ==
    /\ sessions = <<>>
    /\ candidates = <<>>
    /\ temp = NoFiles
    /\ last = [op |-> "none"]
    /\ nupdates = 0
    /\ peer = NoPeer
    /\ running = Idle
    /\ session_state = NoSessionState

Next ==
    \/ analyze_resume
    \/ update_qualified_candidate
    \/ get_analysis
    \/ list_analyses
    \/ list_qualified_candidates
    \/ get_qualified_candidate
    \/ qualified_candidates_stats

Spec == Init /\ [][Next]_vars

----------------------------------------------------------------------------
(* One analyze request on empty tables, over every upload, PDF and model   *)
(* reply of the model: the handler reads neither table.                    *)

analyze_any ==
    /\ last.op = "none"
    /\ Analyze(AllUploads, AllPdfs, AllModelIds, AllInvocations)
    /\ UNCHANGED <<nupdates, peer, running, session_state>>

PipelineNext == analyze_any

SpecPipeline == Init /\ [][PipelineNext]_vars

----------------------------------------------------------------------------
(* The candidate workflow: one qualifying analysis, then updates of its    *)
(* candidate (or of an unknown id) with every request body of the model.  *)

QualifyingInvocations == {Reply("content", <<"{mp:80.01}">>), Reply("content", <<"{mp:90.0}">>)}

analyze_qualifying ==
    /\ sessions = <<>>
    /\ Analyze({[ext |-> ".pdf", size |-> 1024]}, FewPdfs, ModelIds, QualifyingInvocations)
    /\ UNCHANGED <<nupdates, peer, running, session_state>>

update_any ==
    /\ nupdates < MaxWorkflowUpdates
    /\ nupdates' = nupdates + 1
    /\ Update(AllBodies)
    /\ UNCHANGED <<sessions, temp, peer, running, session_state>>

WorkflowNext == analyze_qualifying \/ update_any

SpecWorkflow == Init /\ [][WorkflowNext]_vars

----------------------------------------------------------------------------
(* Reading candidates: the tables after n qualifying analyses and some     *)
(* updates, a few rows or more than the cap, then one list request with    *)
(* any query of the model, one stats request or one retrieval: the         *)
(* handlers write nothing.                                                 *)

SeedPercentage(i) ==
    CASE i % 5 = 0 -> 80010
      [] i % 5 = 1 -> 90000
      [] i % 5 = 2 -> 89990
      [] i % 5 = 3 -> 95000
      [] i % 5 = 4 -> 85500

SeedResult(i) == structure_output("dict", Full(JFloat(SeedPercentage(i)))).result

SeedText == [by |-> "pdfplumber", len |-> MinTextLen + 1]

SeedSession(i) == NewSession(i, JobDescription, SeedText, SeedResult(i))

(* every third candidate was set to CONTACTED through the FastAPI update,  *)
(* every seventeenth had its match percentage overwritten through the DRF  *)
(* update                                                                  *)
SeedCandidate(i) ==
    IF i % 17 = 0
    THEN drf_save(NewCandidate(i, i, JobDescription, SeedText, SeedResult(i)),
                  ("match_percentage" :> 50000))
    ELSE IF i % 3 = 0
    THEN fastapi_save(NewCandidate(i, i, JobDescription, SeedText, SeedResult(i)),
                      ("status" :> "contacted"))
    ELSE NewCandidate(i, i, JobDescription, SeedText, SeedResult(i))

TableSizes == {FewRows, ListCap + ExtraRows}

InitList ==
    \E n \in TableSizes :
        /\ sessions = [i \in 1..n |-> SeedSession(i)]
        /\ candidates = [i \in 1..n |-> SeedCandidate(i)]
        /\ temp = NoFiles
        /\ last = [op |-> "none"]
        /\ nupdates = 0
        /\ peer = NoPeer
        /\ running = Idle
        /\ session_state = NoSessionState

list_any ==
    /\ last.op = "none"
    /\ ListCandidates(AllQueries)

stats_any ==
    /\ last.op = "none"
    /\ qualified_candidates_stats

get_candidate_any ==
    /\ last.op = "none"
    /\ get_qualified_candidate

ListNext == list_any \/ stats_any \/ get_candidate_any

SpecList == InitList /\ [][ListNext]_vars

----------------------------------------------------------------------------
(* The two implementations side by side: the DRF views work on sessions,   *)
(* candidates and temp, the FastAPI app on the tables and storage of peer, *)
(* and every request is sent to both.  last holds both answers.            *)

PairUploads == {[ext |-> ".pdf", size |-> 1024], [ext |-> ".pdf", size |-> MaxUploadBytes + 1]}

PairPdfs == {Pdf(Lib(FALSE, MinTextLen + 1), Lib(TRUE, 0), Lib(TRUE, 0))}

PairModelIds == {<<"anthropic", ".claude-3-sonnet">>}

PairInvocations ==
    {Reply("content", <<"{mp:72}">>), Reply("content", <<"{mp:90.0}">>)}

PairBodies == FewBodies \cup {("status" :> "archived")}

Both(op, request, drf, fastapi) ==
    [op |-> op, request |-> request, drf |-> drf, fastapi |-> fastapi]

AsPeer(o) == [sessions |-> o.sessions, candidates |-> o.candidates, temp |-> o.temp]

pair_analyze ==
    \E upload \in PairUploads, pdf \in PairPdfs, model_id \in PairModelIds :
    \E invoke \in PairInvocations :
    \E d \in {analyze_outcome("drf", upload, pdf, model_id, invoke,
                              sessions, candidates, temp)} :
    \E f \in {analyze_outcome("fastapi", upload, pdf, model_id, invoke,
                              peer.sessions, peer.candidates, peer.temp)} :
        /\ Len(d.sessions) <= MaxSessions /\ Len(f.sessions) <= MaxSessions
        /\ Cardinality(DOMAIN d.temp) <= MaxTempFiles
        /\ Cardinality(DOMAIN f.temp) <= MaxTempFiles
        /\ sessions' = d.sessions
        /\ candidates' = d.candidates
        /\ temp' = d.temp
        /\ peer' = AsPeer(f)
        /\ last' = Both("analyze", upload, d.last, f.last)
        /\ UNCHANGED <<nupdates, running, session_state>>

pair_update ==
    \E id \in UrlIds(candidates) \cup UrlIds(peer.candidates), body \in PairBodies :
    \E d \in {update_outcome("drf", candidates, id, body)} :
    \E f \in {update_outcome("fastapi", peer.candidates, id, body)} :
        /\ nupdates < MaxUpdates
        /\ nupdates' = nupdates + 1
        /\ candidates' = d.candidates
        /\ peer' = [peer EXCEPT !.candidates = f.candidates]
        /\ last' = Both("update", id, d.last, f.last)
        /\ UNCHANGED <<sessions, temp, running, session_state>>

pair_get_analysis ==
    /\ \E id \in UrlIds(sessions) \cup UrlIds(peer.sessions) :
            last' = Both("get_analysis", id, get_analysis_answer("drf", sessions, id),
                         get_analysis_answer("fastapi", peer.sessions, id))
    /\ UNCHANGED <<sessions, candidates, temp, nupdates, peer, running, session_state>>

pair_list_analyses ==
    /\ last' = Both("list_analyses", DefaultLimit,
                    list_analyses_answer("drf", sessions, DefaultLimit),
                    list_analyses_answer("fastapi", peer.sessions, DefaultLimit))
    /\ UNCHANGED <<sessions, candidates, temp, nupdates, peer, running, session_state>>

pair_list_qualified_candidates ==
    /\ \E query \in FewQueries :
            last' = Both("list_qualified_candidates", query,
                         list_answer("drf", candidates, query),
                         list_answer("fastapi", peer.candidates, query))
    /\ UNCHANGED <<sessions, candidates, temp, nupdates, peer, running, session_state>>

pair_get_qualified_candidate ==
    /\ \E id \in UrlIds(candidates) \cup UrlIds(peer.candidates) :
            last' = Both("get_qualified_candidate", id,
                         get_qualified_candidate_answer("drf", candidates, id),
                         get_qualified_candidate_answer("fastapi", peer.candidates, id))
    /\ UNCHANGED <<sessions, candidates, temp, nupdates, peer, running, session_state>>

pair_stats ==
    /\ last' = Both("qualified_candidates_stats", NoQuery,
                    stats_answer("drf", Range(candidates)),
                    stats_answer("fastapi", Range(peer.candidates)))
    /\ UNCHANGED <<sessions, candidates, temp, nupdates, peer, running, session_state>>

PairNext ==
    \/ pair_analyze
    \/ pair_update
    \/ pair_get_analysis
    \/ pair_list_analyses
    \/ pair_list_qualified_candidates
    \/ pair_get_qualified_candidate
    \/ pair_stats

SpecPair == Init /\ [][PairNext]_vars

----------------------------------------------------------------------------
(* Two analyze requests in flight at once, each handler running one        *)
(* statement group at a time.  running[r] holds the position pc and the    *)
(* locals of request r: file is file_path / tmp_path, ex the extracted     *)
(* text, an analysis_result, sid and cid the rows it created.              *)

Requests == {1, 2}

ConcurrentPdfs ==
    {Pdf(Lib(FALSE, MinTextLen + 1), Lib(TRUE, 0), Lib(TRUE, 0)),
     Pdf(Lib(TRUE, 0), Lib(FALSE, MinTextLen + 2), Lib(TRUE, 0)),
     NoPdf}

ConcurrentInvocations ==
    {TransportError, Reply("content", <<"{mp:72}">>), Reply("content", <<"{mp:90.0}">>)}

NotExtracted == [ok |-> FALSE, by |-> "none", len |-> 0, ran |-> <<>>]

Received(impl, upload, pdf, model_id, invoke) ==
    [pc |-> "validate", impl |-> impl, upload |-> upload, pdf |-> pdf,
     model_id |-> model_id, invoke |-> invoke, file |-> 0, ex |-> NotExtracted,
     an |-> NotAnalyzed, sid |-> 0, cid |-> 0, answer |-> [op |-> "none"]]

InitConcurrent ==
    /\ sessions = <<>>
    /\ candidates = <<>>
    /\ temp = NoFiles
    /\ last = [op |-> "none"]
    /\ nupdates = 0
    /\ peer = NoPeer
    /\ session_state = NoSessionState
    /\ running \in [Requests ->
            {Received(impl, upload, pdf, model_id, invoke) :
                impl \in Impls, upload \in FewUploads, pdf \in ConcurrentPdfs,
                model_id \in PairModelIds, invoke \in ConcurrentInvocations}]

(* the steps the request has run when it is at the clean-up *)
StepsRun(q) ==
    <<"validate", "save_temp">> \o ExtractSteps(q.ex.ran) \o MatchSteps(q.an)
        \o <<"create_session", "qualify">>
        \o (IF q.cid # 0 THEN <<"create_candidate">> ELSE <<>>)

Goto(r, q, pc) ==
    /\ running' = [running EXCEPT ![r] = [q EXCEPT !.pc = pc]]
    /\ UNCHANGED last

Answer(r, q, answer) ==
    /\ running' = [running EXCEPT ![r] = [q EXCEPT !.pc = "done", !.answer = answer]]
    /\ last' = answer

(* serializer.is_valid() / filename.endswith('.pdf') *)
validate(r) ==
    /\ running[r].pc = "validate"
    /\ \E q \in {running[r]} :
          IF ~UploadAccepted(q.impl, q.upload)
          THEN Answer(r, q, Refused(q.impl, q.upload))
          ELSE Goto(r, q, "save_temp")
    /\ UNCHANGED <<sessions, candidates, temp, nupdates, peer, session_state>>

(* default_storage.save(...) / NamedTemporaryFile(delete = False) *)
save_temp(r) ==
    /\ running[r].pc = "save_temp"
    /\ \E file \in {NewTempFile(temp)} :
          /\ temp' = StoreTempFile(temp, file, running[r].pdf)
          /\ Goto(r, [running[r] EXCEPT !.file = file], "extract_text")
    /\ UNCHANGED <<sessions, candidates, nupdates, peer, session_state>>

(* PDFExtractor.extract_text(full_path) *)
extract(r) ==
    /\ running[r].pc = "extract_text"
    /\ \E ex \in {extract_text(ReadTempFile(temp, running[r].file))} :
        \E q \in {[running[r] EXCEPT !.ex = ex]} :
          IF ~ex.ok
          THEN Answer(r, q, Failed(q.impl, q.upload, q.pdf, q.model_id, q.file,
                                   "extract_text", ex.ran, NotAnalyzed,
                                   <<"validate", "save_temp">> \o ExtractSteps(ex.ran)))
          ELSE Goto(r, q, "analyze_resume_match")
    /\ UNCHANGED <<sessions, candidates, temp, nupdates, peer, session_state>>

(* AIAnalyzer().analyze_resume_match(resume_text, job_description) *)
match(r) ==
    /\ running[r].pc = "analyze_resume_match"
    /\ \E an \in {analyze_resume_match(running[r].model_id, running[r].invoke)} :
        \E q \in {[running[r] EXCEPT !.an = an]} :
          IF ~an.ok
          THEN Answer(r, q, Failed(q.impl, q.upload, q.pdf, q.model_id, q.file, an.stage,
                                   q.ex.ran, an,
                                   <<"validate", "save_temp">> \o ExtractSteps(q.ex.ran)
                                        \o MatchSteps(an)))
          ELSE Goto(r, q, "create_session")
    /\ UNCHANGED <<sessions, candidates, temp, nupdates, peer, session_state>>

(* AnalysisSession.objects.create(...) *)
create_session(r) ==
    /\ running[r].pc = "create_session"
    /\ \E q \in {running[r]} :
          IF ~SessionWritable(q.an.result)
          THEN /\ Answer(r, q, Failed(q.impl, q.upload, q.pdf, q.model_id, q.file,
                                      "create_session", q.ex.ran, q.an,
                                      <<"validate", "save_temp">> \o ExtractSteps(q.ex.ran)
                                        \o MatchSteps(q.an) \o <<"create_session">>))
               /\ UNCHANGED sessions
          ELSE /\ sessions' = InsertSession(sessions,
                        NewSession(Len(sessions) + 1, JobDescription,
                                   [by |-> q.ex.by, len |-> q.ex.len], q.an.result))
               /\ Goto(r, [q EXCEPT !.sid = Len(sessions) + 1], "qualify")
    /\ UNCHANGED <<candidates, temp, nupdates, peer, session_state>>

(* if float(session.match_percentage) > 80.0: QualifiedCandidate.objects.create(...) *)
qualify(r) ==
    /\ running[r].pc = "qualify"
    /\ \E q \in {running[r]} :
          IF Qualifies(q.an.result)
          THEN /\ candidates' = InsertCandidate(candidates,
                        NewCandidate(Len(candidates) + 1, q.sid, JobDescription,
                                     [by |-> q.ex.by, len |-> q.ex.len], q.an.result))
               /\ Goto(r, [q EXCEPT !.cid = Len(candidates) + 1], "delete_temp")
          ELSE /\ UNCHANGED candidates
               /\ Goto(r, q, "delete_temp")
    /\ UNCHANGED <<sessions, temp, nupdates, peer, session_state>>

(* default_storage.delete(file_path) ignores a missing file; os.unlink     *)
(* raises on one                                                           *)
delete_temp(r) ==
    /\ running[r].pc = "delete_temp"
    /\ \E q \in {running[r]} :
          IF q.impl = "fastapi" /\ q.file \notin DOMAIN temp
          THEN /\ Answer(r, q, AnalyzeLast(q.impl, q.upload, q.pdf, q.model_id, q.file, 500,
                                "delete_temp", q.ex.ran, q.an,
                                StepsRun(q) \o <<"delete_temp">>, ErrorBody("delete_temp"),
                                SubSeq(sessions, q.sid, q.sid),
                                IF q.cid # 0 THEN SubSeq(candidates, q.cid, q.cid)
                                ELSE <<>>))
               /\ UNCHANGED temp
          ELSE /\ temp' = DeleteTempFile(temp, q.file)
               /\ Goto(r, q, "respond")
    /\ UNCHANGED <<sessions, candidates, nupdates, peer, session_state>>

(* the response: AnalysisResponseSerializer / AnalysisResponse *)
respond(r) ==
    /\ running[r].pc = "respond"
    /\ \E q \in {running[r]} :
          Answer(r, q,
            IF q.impl = "drf" \/ ResponseValid(q.an.result)
            THEN AnalyzeLast(q.impl, q.upload, q.pdf, q.model_id, q.file,
                    SuccessCode(q.impl), "none", q.ex.ran, q.an,
                    StepsRun(q) \o <<"delete_temp", "respond">>,
                    ResponseBody(q.impl, ResponseData(q.sid, q.an.result, q.cid # 0)),
                    SubSeq(sessions, q.sid, q.sid),
                    IF q.cid # 0 THEN SubSeq(candidates, q.cid, q.cid) ELSE <<>>)
            ELSE AnalyzeLast(q.impl, q.upload, q.pdf, q.model_id, q.file, 500, "response",
                    q.ex.ran, q.an, StepsRun(q) \o <<"delete_temp", "respond">>,
                    ErrorBody("response"), SubSeq(sessions, q.sid, q.sid),
                    IF q.cid # 0 THEN SubSeq(candidates, q.cid, q.cid) ELSE <<>>))
    /\ UNCHANGED <<sessions, candidates, temp, nupdates, peer, session_state>>

ConcurrentNext ==
    \E r \in Requests :
        \/ validate(r)
        \/ save_temp(r)
        \/ extract(r)
        \/ match(r)
        \/ create_session(r)
        \/ qualify(r)
        \/ delete_temp(r)
        \/ respond(r)

SpecConcurrent == InitConcurrent /\ [][ConcurrentNext]_vars

----------------------------------------------------------------------------
(* One stats request run query by query, while analyze and update          *)
(* requests are served: the handler opens no transaction, so every count   *)
(* reads the table as it is when that query runs.  At most MaxMeanwhile    *)
(* requests of each kind are served meanwhile.                             *)

(* the queries of the handler in the order it runs them: the total, the   *)
(* highly qualified, one per status choice, the contacted, the others      *)
NumStatsQueries == 4 + Len(STATUS_CHOICES)

StatsQuery(n, rows) ==
    IF n = 1 THEN Count(rows)
    ELSE IF n = 2 THEN Count(ByMin(rows, HighlyQualified))
    ELSE IF n <= 2 + Len(STATUS_CHOICES)
    THEN Count({r \in rows : r.status = STATUS_CHOICES[n - 2]})
    ELSE IF n = NumStatsQueries - 1 THEN Count({r \in rows : r.is_contacted})
    ELSE Count({r \in rows : ~r.is_contacted})

StatsBody(counts) ==
    [total_qualified_candidates |-> counts[1],
     highly_qualified_count |-> counts[2],
     status_breakdown |->
        [st \in Range(STATUS_CHOICES) |->
            counts[2 + CHOOSE i \in 1..Len(STATUS_CHOICES) : STATUS_CHOICES[i] = st]],
     contacted_count |-> counts[NumStatsQueries - 1],
     not_contacted_count |-> counts[NumStatsQueries]]

StatsReceived(impl) == [pc |-> "query", impl |-> impl, counts |-> <<>>]

InitStats ==
    /\ sessions = <<>>
    /\ candidates = <<>>
    /\ temp = NoFiles
    /\ last = [op |-> "none"]
    /\ nupdates = 0
    /\ peer = NoPeer
    /\ running \in {StatsReceived(impl) : impl \in Impls}
    /\ session_state = NoSessionState

stats_query ==
    /\ running.pc = "query"
    /\ Len(running.counts) < NumStatsQueries
    /\ running' = [running EXCEPT
            !.counts = Append(@, StatsQuery(Len(@) + 1, Range(candidates)))]
    /\ UNCHANGED <<sessions, candidates, temp, last, nupdates, peer, session_state>>

stats_respond ==
    /\ running.pc = "query"
    /\ Len(running.counts) = NumStatsQueries
    /\ running' = [running EXCEPT !.pc = "done"]
    /\ last' = ReadLast("qualified_candidates_stats", running.impl, 200, NoQuery,
                    StatsBody(running.counts))
    /\ UNCHANGED <<sessions, candidates, temp, nupdates, peer, session_state>>

StatsBodies == {("status" :> "CONTACTED"), ("is_contacted" :> TRUE), ("status" :> "archived")}

analyze_meanwhile ==
    /\ Len(sessions) < MaxMeanwhile
    /\ Analyze({[ext |-> ".pdf", size |-> 1024]}, PairPdfs, PairModelIds, QualifyingInvocations)
    /\ UNCHANGED <<nupdates, peer, running, session_state>>

update_meanwhile ==
    /\ nupdates < MaxMeanwhile
    /\ nupdates' = nupdates + 1
    /\ Update(StatsBodies)
    /\ UNCHANGED <<sessions, temp, peer, running, session_state>>

StatsNext == stats_query \/ stats_respond \/ analyze_meanwhile \/ update_meanwhile

SpecStats == InitStats /\ [][StatsNext]_vars

----------------------------------------------------------------------------
(* The payload adapter on its own, over every model identifier of up to    *)
(* MaxChunks chunks: family patterns, near misses and other text.          *)

IdChunks ==
    {"anthropic", "meta.llama", "amazon.titan-text", "amazon.nova",
     "Anthropic", "amazon.titan-embed", "mistral.", "us."}

RECURSIVE IdsOfLen(_)
IdsOfLen(n) ==
    IF n = 0 THEN {<<>>}
    ELSE {Append(id, chunk) : id \in IdsOfLen(n - 1), chunk \in IdChunks}

ChunkedIds == UNION {IdsOfLen(n) : n \in 1..MaxChunks}

build_any ==
    /\ last.op = "none"
    /\ \E model_id \in ChunkedIds :
            last' = [op |-> "build_payload", model_id |-> model_id,
                     payload |-> build_payload(model_id)]
    /\ UNCHANGED <<sessions, candidates, temp, nupdates, peer, running, session_state>>

PayloadNext == build_any

SpecPayload == Init /\ [][PayloadNext]_vars

----------------------------------------------------------------------------
(* The comparison view of the Streamlit UI, one action per run of its      *)
(* script: a run started by a button or by a committed rename text, or     *)
(* the run that st.rerun() starts.  A dict is the sequence of its items    *)
(* in insertion order.                                                     *)

(* the names "Add to Comparison" gives *)
ResumeNames == <<"Resume 1", "Resume 2", "Resume 3", "Resume 4">>

comparison_data(n) == [i \in 1..n |-> [k |-> ResumeNames[i], v |-> i]]

(* what the user types into a rename input *)
Labels == {"Resume 1", "Shortlist", " "}

IsBlank(label) == label \in {" ", ""}

None == [some |-> FALSE, v |-> <<>>]

Some(d) == [some |-> TRUE, v |-> d]

(* the truth value of the undo buffer: None and the empty dict are false *)
Truthy(ub) == ub.some /\ ub.v # <<>>

KeysOf(d) == {d[i].k : i \in 1..Len(d)}

Item(d, k) == d[CHOOSE i \in 1..Len(d) : d[i].k = k]

Del(d, k) == SelectSeq(d, LAMBDA e : e.k # k)

LastOf(S) == CHOOSE i \in S : \A j \in S : j <= i

NoText == [name \in {} |-> ""]

(* st.text_input(value=name, key=...): the text kept for the key, or name  *)
TextInput(w, name) == IF name \in DOMAIN w THEN w[name] ELSE name

(* no button pressed; name is the input the user typed into, if any *)
NoPress == [key |-> "none", name |-> ""]

(* how a run ends: the two entries of the session state, whether it ended  *)
(* in st.rerun(), the names whose inputs it drew, and its last message     *)
ScriptEnd(rr, ub, rerun, shown, msg) ==
    [resume_results |-> rr, undo_buffer |-> ub, rerun |-> rerun, shown |-> shown, msg |-> msg]

(* one run of side_by_side_cards with the button press (if any) and the    *)
(* rename texts w                                                          *)
side_by_side_cards(rr, ub, w, press) ==
    IF press.key = "remove_all"
    THEN ScriptEnd(<<>>, Some(rr), TRUE, {}, "All resumes removed!")
    ELSE IF press.key = "undo_delete" /\ Truthy(ub)
    THEN ScriptEnd(ub.v, None, TRUE, {}, "Restored deleted resumes!")
    ELSE LET changed == {i \in 1..Len(rr) : TextInput(w, rr[i].k) # rr[i].k}
             renamed_name == IF changed = {} THEN "" ELSE rr[LastOf(changed)].k
             new_name == IF changed = {} THEN "" ELSE TextInput(w, renamed_name)
             to_delete == IF press.key = "remove" THEN press.name ELSE ""
         IN  IF to_delete # ""
             THEN ScriptEnd(Del(rr, to_delete), Some(rr), TRUE, KeysOf(rr), "Removed")
             ELSE IF renamed_name # "" /\ new_name # "" /\ ~IsBlank(new_name)
             THEN IF new_name \notin KeysOf(rr)
                  THEN ScriptEnd(Append(Del(rr, renamed_name),
                                        [k |-> new_name, v |-> Item(rr, renamed_name).v]),
                                 Some(rr), TRUE, KeysOf(rr), "Renamed")
                  ELSE ScriptEnd(rr, ub, FALSE, KeysOf(rr),
                                 "A resume with that name already exists.")
             ELSE ScriptEnd(rr, ub, FALSE, KeysOf(rr),
                            IF press.key = "undo_delete" THEN "Nothing to undo." ELSE "")

(* the texts of the inputs a run did not draw are forgotten when the run   *)
(* reaches its end; whether a run cut short by st.rerun() forgets them is  *)
(* Streamlit's choice                                                      *)
Forget(w, shown) == [name \in DOMAIN w \cap shown |-> w[name]]

TextsKept(w, end) == IF end.rerun THEN {w, Forget(w, end.shown)} ELSE {Forget(w, end.shown)}

(* the resumes before the most recent remove or remove-all *)
DeletedFrom(op) ==
    IF op \in {"remove", "remove_all"} THEN Some(session_state.resume_results)
    ELSE IF last.op = "none" THEN None
    ELSE last.deleted_from

RunScript(op, press, label, w) ==
    /\ \E end \in {side_by_side_cards(session_state.resume_results,
                                       session_state.undo_buffer, w, press)} :
       \E kept \in TextsKept(w, end) :
            /\ session_state' = [resume_results |-> end.resume_results,
                                 undo_buffer |-> end.undo_buffer,
                                 rename |-> kept, rerun |-> end.rerun]
            /\ last' = [op |-> op, name |-> press.name, label |-> label, msg |-> end.msg,
                        was |-> [resume_results |-> session_state.resume_results,
                                 undo_buffer |-> session_state.undo_buffer],
                        deleted_from |-> DeletedFrom(op)]
    /\ UNCHANGED <<sessions, candidates, temp, nupdates, peer, running>>

(* _init_state on the resumes added to the comparison *)
InitComparison ==
    /\ sessions = <<>>
    /\ candidates = <<>>
    /\ temp = NoFiles
    /\ last = [op |-> "none"]
    /\ nupdates = 0
    /\ peer = NoPeer
    /\ running = Idle
    /\ \E n \in 1..MaxResumes :
            session_state = [resume_results |-> comparison_data(n), undo_buffer |-> None,
                             rename |-> NoText, rerun |-> FALSE]

remove_all ==
    /\ ~session_state.rerun
    /\ RunScript("remove_all", [key |-> "remove_all", name |-> ""], "",
                 session_state.rename)

undo_delete ==
    /\ ~session_state.rerun
    /\ RunScript("undo_delete", [key |-> "undo_delete", name |-> ""], "",
                 session_state.rename)

remove ==
    /\ ~session_state.rerun
    /\ \E name \in KeysOf(session_state.resume_results) :
            RunScript("remove", [key |-> "remove", name |-> name], "",
                      session_state.rename)

rename ==
    /\ ~session_state.rerun
    /\ \E name \in KeysOf(session_state.resume_results), label \in Labels :
            /\ label # TextInput(session_state.rename, name)
            /\ RunScript("rename", [key |-> "none", name |-> name], label,
                         (name :> label) @@ session_state.rename)

rerun ==
    /\ session_state.rerun
    /\ RunScript("rerun", NoPress, "", session_state.rename)

ComparisonNext == remove_all \/ undo_delete \/ remove \/ rename \/ rerun

SpecComparison == InitComparison /\ [][ComparisonNext]_vars

----------------------------------------------------------------------------
(* Properties *)

Succeeded == last.op = "analyze" /\ last.code = SuccessCode(last.impl)

CandidatesOf(sid) == {i \in 1..Len(candidates) : candidates[i].analysis_session = sid}

(* C1: a successful analyze request leaves a QualifiedCandidate for its    *)
(* new session exactly when the stored match percentage of that session is *)
(* strictly greater than 80.0, and then exactly one.                       *)
C1_QualifiedIffAbove80 ==
    Succeeded =>
        LET s == sessions[last.session_id] IN
        /\ Cardinality(CandidatesOf(s.id)) = (IF s.match_percentage > QualifyThreshold
                                               THEN 1 ELSE 0)
        /\ Len(last.new_candidates) = Cardinality(CandidatesOf(s.id))

(* C2: no AnalysisSession has more than one QualifiedCandidate linked to   *)
(* it, and every candidate is linked to a stored session.                  *)
C2_AtMostOneCandidatePerSession ==
    /\ \A i \in 1..Len(sessions) : Cardinality(CandidatesOf(sessions[i].id)) <= 1
    /\ \A i \in 1..Len(candidates) : Exists(sessions, candidates[i].analysis_session)

C2_Witness ==
    /\ Len(candidates) = 2
    /\ candidates[1].analysis_session # candidates[2].analysis_session
    /\ last.op = "update" /\ last.code = 200

(* C3: every stored QualifiedCandidate has a stored match percentage       *)
(* strictly greater than 80.0 and is linked to a stored session.           *)
C3_CandidatesAbove80 ==
    \A i \in 1..Len(candidates) :
        /\ candidates[i].match_percentage > QualifyThreshold
        /\ Exists(sessions, candidates[i].analysis_session)

(* C4: the stored match percentage of every AnalysisSession and of every   *)
(* QualifiedCandidate lies in [0, 100].                                    *)
InRange(mp) == mp >= 0 /\ mp <= 100 * 1000

C4_MatchWithin0And100 ==
    /\ \A i \in 1..Len(sessions) : InRange(sessions[i].match_percentage)
    /\ \A i \in 1..Len(candidates) : InRange(candidates[i].match_percentage)

(* C5: an analyze request answered with success has added exactly one      *)
(* AnalysisSession row, and the session_id of the response is the id of    *)
(* that row in the table.                                                  *)
C5_OneSessionPerSuccess ==
    Succeeded =>
        /\ Len(last.new_sessions) = 1
        /\ last.new_sessions[1].id = last.session_id
        /\ Exists(sessions, last.session_id)
        /\ sessions[last.session_id] = last.new_sessions[1]
        /\ \A i \in 1..Len(sessions) :
                sessions[i].id = last.session_id => i = last.session_id

C5_Witness ==
    /\ Succeeded
    /\ Len(sessions) = 2
    /\ last.session_id = 2

(* C6: in both implementations an upload that is not a PDF or is larger    *)
(* than 5 MB is answered 400 with no extraction method run, the model not  *)
(* invoked and no row added; an upload of exactly 5 MB passes validation.  *)
C6_RejectedBeforeExtraction ==
    last.op = "analyze" =>
        /\ (~EndsWithPdf(last.upload) \/ last.upload.size > MaxUploadBytes) =>
                /\ last.code = 400
                /\ last.ran = <<>>
                /\ ~last.invoked
                /\ last.new_sessions = <<>>
                /\ last.new_candidates = <<>>
        /\ (EndsWithPdf(last.upload) /\ last.upload.size = MaxUploadBytes) =>
                last.code # 400

(* C7: the JSON extraction of the normalizer never raises; a text whose    *)
(* fenced block or whole content is not JSON gives the degraded result     *)
(* carrying the raw text under raw_response.                               *)
Unparsable(text) ==
    ~json_loads(IF FenceJson \in Range(text)
                THEN Piece0(Piece1(text, {FenceJson}), {Fence})
                ELSE IF Fence \in Range(text) THEN Piece1(text, {Fence})
                ELSE text).ok

C7_ExtractJsonNeverRaises ==
    (last.op = "analyze" /\ last.invoked /\ last.stage # "invoke") =>
        /\ last.stage # "extract_json"
        /\ Unparsable(last.text) =>
                /\ last.stage \in {"none", "response"}
                /\ last.result.raw_response = ("raw_response" :> JStr(last.text))

(* C8: a match_percentage given as an integer, a float or a numeric string *)
(* is normalized to that number; a non-numeric match_percentage fails the  *)
(* whole request with an error and nothing is persisted.                   *)
NumericStrings ==
    (<<"8", "5", ".", "5">> :> 85500) @@ (<<" ", "8", "0", ".", "0", "0", "4">> :> 80004)

Normalized == last.op = "analyze" /\ last.stage \in {"none", "create_session", "response"}

C8_MatchCoercedOrRequestFails ==
    (last.op = "analyze" /\ last.invoked /\ last.stage \notin {"invoke", "extract_json"}) =>
        LET parsed == extract_json(last.text)
            given == parsed.top = "dict" /\ "match_percentage" \in DOMAIN parsed.d
            mp == parsed.d["match_percentage"]
            numeric == \/ mp.t \in {"int", "float"}
                       \/ mp.t = "str" /\ mp.s \in DOMAIN NumericStrings
        IN  given =>
              IF numeric
              THEN /\ Normalized
                   /\ last.result.match_percentage =
                          (IF mp.t = "str" THEN NumericStrings[mp.s] ELSE mp.n)
              ELSE /\ last.code = 500
                   /\ last.stage = "structure_output"
                   /\ sessions = <<>>
                   /\ candidates = <<>>

C8_Witness ==
    /\ last.op = "analyze"
    /\ last.stage = "structure_output"
    /\ last.code = 500
    /\ LET parsed == extract_json(last.text)
       IN  /\ "match_percentage" \in DOMAIN parsed.d
           /\ parsed.d["match_percentage"].t = "str"

(* C9 as stated: after a successful update every supplied field among     *)
(* status, is_contacted and notes holds the supplied value and every one   *)
(* not supplied holds its value from before the request.                   *)
WorkflowFields == {"status", "is_contacted", "notes"}

Updated == last'.op = "update" /\ last'.code = 200

C9_SuppliedValuesStored ==
    [][Updated =>
        \A f \in WorkflowFields :
            candidates'[last'.id][f] =
                (IF f \in DOMAIN last'.body THEN last'.body[f]
                 ELSE candidates[last'.id][f])]_vars

(* C9 amended: a supplied field holds the supplied value as the handler    *)
(* takes it (the FastAPI handler upper-cases status and reads an empty     *)
(* form value as not supplied, the DRF serializer strips the whitespace    *)
(* around notes); a field not supplied holds its value from before.        *)
Blank(f) == IF f = "notes" THEN <<>> ELSE ""

Supplied(impl, body, f) ==
    /\ f \in DOMAIN body
    /\ ~(impl = "fastapi" /\ f \in {"status", "notes"} /\ body[f] = Blank(f))

Taken(impl, f, v) ==
    IF impl = "fastapi" /\ f = "status" THEN Upper(v)
    ELSE IF impl = "drf" /\ f = "notes" THEN Strip(v)
    ELSE v

C9_PartialMerge ==
    [][Updated =>
        \A f \in WorkflowFields :
            candidates'[last'.id][f] =
                (IF Supplied(last'.impl, last'.body, f)
                 THEN Taken(last'.impl, f, last'.body[f])
                 ELSE candidates[last'.id][f])]_vars

C9_Witness ==
    /\ last.op = "update" /\ last.code = 200
    /\ last.body = ("status" :> "CONTACTED")
    /\ candidates[last.id].status = "CONTACTED"
    /\ candidates[last.id].notes = <<"call Monday">>
    /\ candidates[last.id].is_contacted

(* C10: an update request changes no field of a candidate other than       *)
(* status, is_contacted and notes.                                         *)
C10_OnlyWorkflowFieldsChange ==
    [][last'.op = "update" =>
        /\ Len(candidates') = Len(candidates)
        /\ \A i \in 1..Len(candidates) :
             \A f \in DOMAIN candidates[i] \ WorkflowFields :
                candidates'[i][f] = candidates[i][f]]_vars

(* C11: the status of every stored QualifiedCandidate is one of NEW,       *)
(* REVIEWED, CONTACTED, INTERVIEWING, HIRED, REJECTED: an update supplying *)
(* any other status value does not store it.                               *)
C11_StatusEnumerated ==
    \A i \in 1..Len(candidates) : candidates[i].status \in Range(STATUS_CHOICES)

(* C12: no request changes or deletes a stored AnalysisSession: across     *)
(* every step the table only grows and each stored row stays as it was.    *)
C12_SessionsImmutable ==
    [][/\ Len(sessions') >= Len(sessions)
       /\ \A i \in 1..Len(sessions) : sessions'[i] = sessions[i]]_vars

C12_Witness ==
    /\ Len(sessions) = 2
    /\ Len(candidates) >= 1
    /\ nupdates >= 1
    /\ last.op = "get_analysis"
    /\ last.code = 200
    /\ last.request = 1

(* C13: a candidate created by promotion is linked to the session stored   *)
(* by the same request, carries that session's match percentage, skills,   *)
(* education, experience, strengths, gaps, resume text and job description,*)
(* and starts with status NEW, not contacted and with empty notes.         *)
CopiedFields ==
    {"match_percentage", "matching_skills", "matching_education", "matching_experience",
     "highlighted_strengths", "identified_gaps", "resume_text", "job_description"}

Promoted == last.op = "analyze" /\ last.new_candidates # <<>>

C13_PromotionCopiesSession ==
    Promoted =>
        /\ Len(last.new_sessions) = 1
        /\ Len(last.new_candidates) = 1
        /\ LET s == last.new_sessions[1]
               c == last.new_candidates[1]
           IN  /\ c.analysis_session = s.id
               /\ sessions[s.id] = s
               /\ candidates[c.id] = c
               /\ \A f \in CopiedFields : c[f] = s[f]
               /\ c.status = "NEW"
               /\ c.is_contacted = FALSE
               /\ c.notes = <<>>

C13_Witness ==
    /\ Promoted
    /\ last.new_candidates[1].match_percentage = 89990
    /\ last.new_candidates[1].matching_education = JStr(<<"BSc CS">>)
    /\ last.new_candidates[1].resume_text.by = "pypdf2"

(* C14: extract_text runs pdfplumber, PyMuPDF, PyPDF2 in that order and    *)
(* returns the output of the first one whose trimmed text is longer than   *)
(* 50 characters; one that raises or returns less counts as failed and the *)
(* next is tried; none is run after the first that qualifies; when none    *)
(* qualifies the extraction fails.                                         *)
Extracting == last.op = "analyze" /\ last.code # 400

Qualifying(pdf, m) == ~pdf[m].raises /\ pdf[m].len > 50

C14_FirstQualifyingStrategy ==
    Extracting =>
        LET order == <<"pdfplumber", "pymupdf", "pypdf2">>
            n == Len(last.ran)
        IN  /\ n \in 1..3
            /\ last.ran = SubSeq(order, 1, n)
            /\ \A i \in 1..(n - 1) : ~Qualifying(last.pdf, order[i])
            /\ IF last.stage = "extract_text"
               THEN n = 3 /\ ~Qualifying(last.pdf, order[3]) /\ last.code = 500
               ELSE /\ Qualifying(last.pdf, order[n])
                    /\ \A i \in 1..Len(last.new_sessions) :
                         last.new_sessions[i].resume_text =
                            [by |-> order[n], len |-> last.pdf[order[n]].len]

C14_Witness ==
    /\ Extracting
    /\ last.new_sessions # <<>>
    /\ last.pdf.pdfplumber.raises
    /\ ~last.pdf.pymupdf.raises /\ last.pdf.pymupdf.len = 50
    /\ last.ran = <<"pdfplumber", "pymupdf", "pypdf2">>

(* C15 as stated: a PDF from which at least 50 characters can be extracted *)
(* (exactly 50 included) gives non-empty text; a PDF with no extractable   *)
(* text fails with an error.                                               *)
Extractable(pdf, n) == \E m \in DOMAIN pdf : ~pdf[m].raises /\ pdf[m].len >= n

ExtractionFailed == last.stage = "extract_text" /\ last.code = 500

C15_AtLeast50Extracted ==
    Extracting =>
        /\ Extractable(last.pdf, 50) =>
                /\ ~ExtractionFailed
                /\ \A i \in 1..Len(last.new_sessions) :
                        last.new_sessions[i].resume_text.len > 0
        /\ ~Extractable(last.pdf, 1) => ExtractionFailed

(* C15 amended: a PDF from which some strategy extracts more than 50       *)
(* characters gives non-empty text; a PDF from which no strategy extracts  *)
(* more than 50, exactly 50 and no text at all included, fails with the    *)
(* extraction error.                                                       *)
C15_MoreThan50Extracted ==
    Extracting =>
        IF Extractable(last.pdf, 51)
        THEN /\ ~ExtractionFailed
             /\ \A i \in 1..Len(last.new_sessions) :
                    last.new_sessions[i].resume_text.len > 50
        ELSE /\ ExtractionFailed
             /\ last.new_sessions = <<>>
             /\ ~last.invoked

C15_Witness ==
    /\ Extracting
    /\ ExtractionFailed
    /\ Extractable(last.pdf, 50)

(* C16 as stated: an analysis with a model identifier containing           *)
(* amazon.nova fails with an error, the model is never invoked for it and  *)
(* no session or candidate is stored.                                      *)
FailedFast ==
    /\ last.code = 500
    /\ last.stage \in {"extract_text", "payload"}
    /\ ~last.invoked
    /\ "invoke_model" \notin Range(last.steps)
    /\ last.new_sessions = <<>>
    /\ last.new_candidates = <<>>

C16_NovaNeverInvoked ==
    (Extracting /\ "amazon.nova" \in Range(last.model_id)) => FailedFast

(* C16 amended: the same for an identifier containing amazon.nova and none *)
(* of anthropic, meta.llama and amazon.titan-text, the families the        *)
(* payload adapter tests first; once the text is extracted the error is    *)
(* the adapter's own.                                                      *)
NovaFirst(model_id) ==
    /\ "amazon.nova" \in Range(model_id)
    /\ Range(model_id) \cap {"anthropic", "meta.llama", "amazon.titan-text"} = {}

C16_NovaFailsFast ==
    (Extracting /\ NovaFirst(last.model_id)) =>
        /\ FailedFast
        /\ "build_payload" \in Range(last.steps) => last.stage = "payload"

C16_Witness ==
    /\ Extracting
    /\ last.model_id = <<"us.", "amazon.nova", "-lite-v1:0">>
    /\ last.stage = "payload"
    /\ last.steps = <<"validate", "save_temp", "pdfplumber", "build_payload">>

(* C17: in both implementations a successful analyze request answers 201   *)
(* with a body that contains is_qualified, and is_qualified is true        *)
(* exactly when the request created a QualifiedCandidate for its session.  *)
Answered == last.op = "analyze" /\ last.stage = "none"

C17_IsQualifiedInResponse ==
    Answered =>
        /\ last.code = 201
        /\ "is_qualified" \in DOMAIN last.body
        /\ last.body.is_qualified = (last.new_candidates # <<>>)

(* C18: when an analyze request answers with success its transient file   *)
(* is no longer in storage, and the file was released after the session    *)
(* was stored and the qualification evaluated.                             *)
Pos(steps, step) == CHOOSE i \in 1..Len(steps) : steps[i] = step

C18_TempFileReleased ==
    Succeeded =>
        /\ last.file \notin DOMAIN temp
        /\ {"save_temp", "create_session", "qualify", "delete_temp", "respond"}
                \subseteq Range(last.steps)
        /\ Pos(last.steps, "save_temp") < Pos(last.steps, "create_session")
        /\ Pos(last.steps, "create_session") < Pos(last.steps, "delete_temp")
        /\ Pos(last.steps, "qualify") < Pos(last.steps, "delete_temp")
        /\ "create_candidate" \in Range(last.steps) =>
                Pos(last.steps, "create_candidate") < Pos(last.steps, "delete_temp")
        /\ Pos(last.steps, "delete_temp") < Pos(last.steps, "respond")

C18_Witness ==
    /\ Succeeded
    /\ DOMAIN temp = {1}
    /\ last.file = 2
    /\ last.new_candidates # <<>>

(* C19 as stated: the candidate list holds only candidates that satisfy    *)
(* every supplied filter (status equal to the requested one, match at      *)
(* least min_percentage, match at least 90.0 when highly_qualified is set),*)
(* in descending match percentage, ties in descending qualification date.  *)
Listed == last.op = "list_qualified_candidates" /\ last.code = 200

Stored(r) ==
    /\ Exists(candidates, r.id)
    /\ candidates[r.id].match_percentage = r.match_percentage
    /\ candidates[r.id].status = r.status
    /\ candidates[r.id].qualification_date = r.qualification_date

Descending(rows) ==
    \A i, j \in 1..Len(rows) :
        i < j =>
            \/ rows[i].match_percentage > rows[j].match_percentage
            \/ /\ rows[i].match_percentage = rows[j].match_percentage
               /\ rows[i].qualification_date > rows[j].qualification_date

QueryNumbers ==
    (<<"9", "0">> :> 90000) @@ (<<"8", "5", ".", "5">> :> 85500) @@ (<<"5", "0">> :> 50000)

C19_ListFiltersAsSupplied ==
    Listed =>
        /\ Descending(last.body)
        /\ \A i \in 1..Len(last.body) :
             LET r == last.body[i]
                 q == last.request
             IN  /\ Stored(r)
                 /\ "status" \in DOMAIN q => r.status = q.status
                 /\ ("min_percentage" \in DOMAIN q
                        /\ q.min_percentage \in DOMAIN QueryNumbers) =>
                            r.match_percentage >= QueryNumbers[q.min_percentage]
                 /\ ("highly_qualified" \in DOMAIN q
                        /\ q.highly_qualified \in {"true", "True", "1"}) =>
                            r.match_percentage >= 90000

(* C19 amended: every listed candidate satisfies the filters as the        *)
(* handler reads them: a non-empty status is compared upper-cased;         *)
(* min_percentage is 80 when not supplied, and the filter is skipped by    *)
(* the DRF view when the value is no number; highly_qualified filters at   *)
(* 90.0 when the DRF view gets the text true in any letter case, or the    *)
(* FastAPI app a true boolean spelling.  The order is as stated.           *)
FlagRead(impl, q) ==
    /\ "highly_qualified" \in DOMAIN q
    /\ IF impl = "drf" THEN q.highly_qualified \in {"true", "True", "TRUE"}
       ELSE q.highly_qualified \in {"true", "True", "TRUE", "1", "yes", "on"}

C19_ListFiltersAsRead ==
    Listed =>
        /\ Descending(last.body)
        /\ \A i \in 1..Len(last.body) :
             LET r == last.body[i]
                 q == last.request
             IN  /\ Stored(r)
                 /\ ("status" \in DOMAIN q /\ q.status # "") =>
                        r.status = Upper(q.status)
                 /\ "min_percentage" \notin DOMAIN q => r.match_percentage >= 80000
                 /\ ("min_percentage" \in DOMAIN q
                        /\ q.min_percentage \in DOMAIN QueryNumbers) =>
                            r.match_percentage >= QueryNumbers[q.min_percentage]
                 /\ FlagRead(last.impl, q) => r.match_percentage >= 90000

C19_Witness ==
    /\ Listed
    /\ last.request = ("status" :> "contacted") @@ ("min_percentage" :> <<"8", "5", ".", "5">>)
    /\ Len(last.body) > 3
    /\ last.body[1].match_percentage = last.body[2].match_percentage
    /\ last.body[1].match_percentage > last.body[Len(last.body)].match_percentage

(* C20: in both implementations the candidate list never holds more than   *)
(* 50 candidates; when more than 50 satisfy the filters it holds the first *)
(* 50 in the list order.                                                   *)
C20_ListCappedAt50 ==
    Listed =>
        /\ Len(last.body) <= 50
        /\ Len(last.body) = 50 =>
                \A i \in 1..Len(candidates) :
                    \/ \E j \in 1..50 : last.body[j].id = candidates[i].id
                    \/ candidates[i].match_percentage <= last.body[50].match_percentage

(* C21: every candidate read shows is_highly_qualified true exactly when   *)
(* its stored match percentage is at least 90.0 (false at 89.99, true at   *)
(* 90.00); a list request whose highly_qualified flag is read as set lists *)
(* exactly the candidates at or above 90.0 among those passing its other   *)
(* filters (up to the cap of the FastAPI list), and the stats count of     *)
(* highly qualified candidates is the number of those candidates.          *)
AtLeast90(id) == candidates[id].match_percentage >= 90000

PassesOtherFilters(impl, q, row) ==
    /\ ("status" \in DOMAIN q /\ q.status # "") => row.status = Upper(q.status)
    /\ "min_percentage" \notin DOMAIN q => row.match_percentage >= 80000
    /\ ("min_percentage" \in DOMAIN q /\ q.min_percentage \in DOMAIN QueryNumbers) =>
            row.match_percentage >= QueryNumbers[q.min_percentage]

Normalizing ==
    /\ last.op = "analyze"
    /\ last.stage \in {"structure_output", "create_session", "response", "none"}

Default(k) ==
    CASE k = "match_percentage" -> 0
      [] k \in {"matching_skills", "highlighted_strengths", "identified_gaps"} ->
            [t |-> "list", n |-> 0, s |-> <<>>]
      [] k \in {"matching_education", "matching_experience"} ->
            [t |-> "str", n |-> 0, s |-> <<>>]
      [] k = "detailed_analysis" -> [t |-> "dict", n |-> 0, s |-> <<>>]

C22_AbsentFieldsDefaulted ==
    /\ Normalizing =>
          LET parsed == extract_json(last.text) IN
          parsed.top = "dict" =>
            /\ last.stage = "structure_output" => "match_percentage" \in DOMAIN parsed.d
            /\ last.stage # "structure_output" =>
                  \A k \in Keys \ DOMAIN parsed.d : last.result[k] = Default(k)
    /\ \A i \in 1..Len(sessions) :
          /\ sessions[i].matching_education.t # "null"
          /\ sessions[i].matching_experience.t # "null"

C22_Witness ==
    /\ Succeeded
    /\ DOMAIN extract_json(last.text).d = {"match_percentage"}
    /\ last.result.match_percentage = 50000
    /\ last.result.matching_skills.s = <<>>
    /\ sessions[last.session_id].matching_education = [t |-> "str", n |-> 0, s |-> <<>>]
    /\ sessions[last.session_id].matching_experience = [t |-> "str", n |-> 0, s |-> <<>>]

(* C23: in both implementations, retrieving a session, retrieving a        *)
(* candidate or updating a candidate with an id that identifies no stored  *)
(* row, well-formed or not, answers 404 and changes no stored row; a       *)
(* retrieval with the id of a stored row answers with that row's values.   *)
ById == {"get_analysis", "get_qualified_candidate", "update"}

TargetId(l) == IF l.op = "update" THEN l.id ELSE l.request

Identified(l) ==
    TargetId(l) \in (IF l.op = "get_analysis" THEN 1..Len(sessions)
                     ELSE 1..Len(candidates))

SameValues(body, row) ==
    /\ body.match_percentage = row.match_percentage
    /\ body.matching_skills = row.matching_skills
    /\ body.matching_education = row.matching_education
    /\ body.matching_experience = row.matching_experience
    /\ body.highlighted_strengths = row.highlighted_strengths
    /\ body.identified_gaps = row.identified_gaps

C23_UnknownIdNotFound ==
    [][last'.op \in ById =>
        IF Identified(last')
        THEN last'.op # "update" =>
                /\ last'.code = 200
                /\ SameValues(last'.body,
                              IF last'.op = "get_analysis" THEN sessions[last'.request]
                              ELSE candidates[last'.request])
        ELSE /\ last'.code = 404
             /\ UNCHANGED <<sessions, candidates>>]_vars

(* C24: run side by side on the same requests, the DRF views and the       *)
(* FastAPI app accept and reject the same requests and hold the same       *)
(* persisted sessions and candidates: as many rows, with the same match    *)
(* percentages, statuses, contacted flags and notes.                       *)
Accepted(answer) == answer.code < 400

SamePersisted(a, b) ==
    /\ Len(a.sessions) = Len(b.sessions)
    /\ \A i \in 1..Len(a.sessions) :
            a.sessions[i].match_percentage = b.sessions[i].match_percentage
    /\ Len(a.candidates) = Len(b.candidates)
    /\ \A i \in 1..Len(a.candidates) :
            /\ a.candidates[i].match_percentage = b.candidates[i].match_percentage
            /\ a.candidates[i].status = b.candidates[i].status
            /\ a.candidates[i].is_contacted = b.candidates[i].is_contacted
            /\ a.candidates[i].notes = b.candidates[i].notes

C24_ImplementationsEquivalent ==
    /\ last.op # "none" => Accepted(last.drf) = Accepted(last.fastapi)
    /\ SamePersisted([sessions |-> sessions, candidates |-> candidates], peer)

(* C25: for any interleaving of the steps of two analyze requests, a       *)
(* request that holds a transient file finds its own upload in it and      *)
(* shares it with no other request, and a request that has answered gave   *)
(* the response and created the session and candidate rows it gives alone  *)
(* on empty tables (row ids and dates apart), the candidate linked to its  *)
(* own session.                                                            *)
HoldsFile(q) ==
    q.pc \in {"extract_text", "analyze_resume_match", "create_session", "qualify",
              "delete_temp"}

RowIds == {"id", "created_at", "qualification_date", "analysis_session", "session_id"}

Apart(row) == [f \in DOMAIN row \ RowIds |-> row[f]]

SameRows(a, b) ==
    /\ Len(a) = Len(b)
    /\ \A i \in 1..Len(a) : Apart(a[i]) = Apart(b[i])

Alone(q) ==
    analyze_outcome(q.impl, q.upload, q.pdf, q.model_id, q.invoke, <<>>, <<>>, NoFiles).last

SameAsAlone(q) ==
    /\ q.answer.code = Alone(q).code
    /\ q.answer.stage = Alone(q).stage
    /\ q.answer.ran = Alone(q).ran
    /\ q.answer.steps = Alone(q).steps
    /\ Apart(q.answer.body) = Apart(Alone(q).body)
    /\ SameRows(q.answer.new_sessions, Alone(q).new_sessions)
    /\ SameRows(q.answer.new_candidates, Alone(q).new_candidates)
    /\ \A i \in 1..Len(q.answer.new_sessions) :
            /\ q.answer.new_sessions[i].id = q.sid
            /\ sessions[q.sid] = q.answer.new_sessions[i]
            /\ "session_id" \in DOMAIN q.answer.body => q.answer.body.session_id = q.sid
    /\ \A i \in 1..Len(q.answer.new_candidates) :
            /\ q.answer.new_candidates[i].analysis_session = q.sid
            /\ candidates[q.cid] = q.answer.new_candidates[i]

C25_ConcurrentIndependent ==
    \A r \in Requests :
        /\ HoldsFile(running[r]) =>
                /\ running[r].file \in DOMAIN temp
                /\ temp[running[r].file] = running[r].pdf
                /\ \A o \in Requests \ {r} :
                        HoldsFile(running[o]) => running[o].file # running[r].file
        /\ running[r].pc = "done" => SameAsAlone(running[r])

C25_Witness ==
    /\ \A r \in Requests :
            /\ running[r].pc = "done"
            /\ running[r].answer.code = SuccessCode(running[r].impl)
    /\ running[1].pdf # running[2].pdf
    /\ running[1].file = 2 /\ running[2].file = 1
    /\ running[1].sid = 1 /\ running[2].sid = 2
    /\ running[1].cid = 2 /\ running[2].cid = 1

(* C26: an analyze request that fails after its file was received answers  *)
(* 500 with an error body and leaves no AnalysisSession and no             *)
(* QualifiedCandidate of its own; no request that answers with an error    *)
(* has added a row.                                                        *)
AnsweredError == last.op = "analyze" /\ last.code >= 400

C26_FailureLeavesNoRows ==
    AnsweredError =>
        /\ last.stage # "validation" => last.code = 500
        /\ DOMAIN last.body = {"error"}
        /\ last.new_sessions = <<>>
        /\ last.new_candidates = <<>>
        /\ sessions = <<>>
        /\ candidates = <<>>

(* C27: the steps of one analyze request run in the order extraction,      *)
(* model invocation, normalization, session insert, qualification check,   *)
(* release of the transient file, each at most once: the model is invoked  *)
(* only after an extraction strategy has qualified, the session is         *)
(* inserted only after the normalization succeeded, and a candidate only   *)
(* after its session is stored.                                            *)
StepOrder ==
    <<"validate", "save_temp", "pdfplumber", "pymupdf", "pypdf2", "build_payload",
      "invoke_model", "extract_json", "structure_output", "create_session", "qualify",
      "create_candidate", "delete_temp", "respond">>

Rank(step) == CHOOSE i \in 1..Len(StepOrder) : StepOrder[i] = step

Ran(step) == step \in Range(last.steps)

C27_StepsInOrderOnce ==
    last.op = "analyze" =>
        /\ \A i \in 1..Len(last.steps) : last.steps[i] \in Range(StepOrder)
        /\ \A i, j \in 1..Len(last.steps) :
                i < j => Rank(last.steps[i]) < Rank(last.steps[j])
        /\ Ran("invoke_model") = last.invoked
        /\ Ran("invoke_model") =>
                /\ last.ran # <<>>
                /\ Qualifying(last.pdf, last.ran[Len(last.ran)])
        /\ Ran("create_session") =>
                /\ Ran("structure_output")
                /\ last.stage \in {"create_session", "response", "none"}
        /\ Ran("create_candidate") =>
                /\ Ran("create_session")
                /\ last.new_sessions # <<>>
                /\ last.new_candidates # <<>>
                /\ last.new_candidates[1].analysis_session = last.new_sessions[1].id
        /\ Ran("delete_temp") => Ran("qualify")

C27_Witness ==
    /\ Succeeded
    /\ last.steps = <<"validate", "save_temp", "pdfplumber", "pymupdf", "build_payload",
                      "invoke_model", "extract_json", "structure_output",
                      "create_session", "qualify", "create_candidate", "delete_temp",
                      "respond">>

(* C28: the payload adapter answers for the first family, in the order     *)
(* anthropic, meta.llama, amazon.titan-text, amazon.nova, whose pattern    *)
(* occurs in the model identifier, wherever in the identifier it occurs:   *)
(* the messages, the prompt + max_gen_len or the inputText shape, or, for  *)
(* amazon.nova, the refusal; an identifier with no pattern gets the        *)
(* prompt + max_tokens + temperature shape.                                *)
Families == <<"anthropic", "meta.llama", "amazon.titan-text", "amazon.nova">>

FamilyPayload ==
    <<[raised |-> FALSE, shape |-> "messages"],
      [raised |-> FALSE, shape |-> "prompt+max_gen_len"],
      [raised |-> FALSE, shape |-> "inputText+textGenerationConfig"],
      [raised |-> TRUE, shape |-> "none"]>>

Occurring(model_id) ==
    {i \in 1..Len(Families) : \E k \in 1..Len(model_id) : model_id[k] = Families[i]}

C28_FirstFamilyWins ==
    last.op = "build_payload" =>
        IF Occurring(last.model_id) = {}
        THEN last.payload = [raised |-> FALSE, shape |-> "prompt+max_tokens"]
        ELSE \E i \in Occurring(last.model_id) :
                /\ \A j \in Occurring(last.model_id) : i <= j
                /\ last.payload = FamilyPayload[i]

C28_Witness ==
    /\ last.op = "build_payload"
    /\ last.model_id = <<"amazon.nova", "amazon.titan-text", "meta.llama">>
    /\ last.payload.shape = "prompt+max_gen_len"

(* C29: every stats response is consistent: the per-status counts sum to  *)
(* the total, contacted plus not contacted is the total, and the highly    *)
(* qualified count is at most the total, also when updates and analyze     *)
(* requests are served between the queries of the handler.                 *)
RECURSIVE SumOver(_, _)
SumOver(f, keys) ==
    IF keys = {} THEN 0
    ELSE LET k == CHOOSE x \in keys : TRUE IN f[k] + SumOver(f, keys \ {k})

Consistent(body) ==
    /\ SumOver(body.status_breakdown, DOMAIN body.status_breakdown)
            = body.total_qualified_candidates
    /\ body.contacted_count + body.not_contacted_count = body.total_qualified_candidates
    /\ body.highly_qualified_count <= body.total_qualified_candidates

C29_StatsConsistent ==
    last.op = "qualified_candidates_stats" => Consistent(last.body)

(* C30: in the comparison view, "Undo Last Delete" pressed with a          *)
(* non-empty undo buffer restores the resumes to what they were just       *)
(* before the most recent remove or remove-all and empties the buffer;     *)
(* pressed with an empty buffer it changes nothing; a rename to a name in  *)
(* use is rejected and leaves the resumes unchanged.                       *)
SameResumes(a, b) == Range(a) = Range(b)

UndoRestores ==
    (last.op = "undo_delete" /\ Truthy(last.was.undo_buffer)) =>
        /\ last.deleted_from.some
        /\ SameResumes(session_state.resume_results, last.deleted_from.v)
        /\ ~Truthy(session_state.undo_buffer)

UndoOfNothing ==
    (last.op = "undo_delete" /\ ~Truthy(last.was.undo_buffer)) =>
        /\ session_state.resume_results = last.was.resume_results
        /\ session_state.undo_buffer = last.was.undo_buffer

RenameToNameInUse ==
    (last.op = "rename" /\ last.label \in KeysOf(last.was.resume_results) \ {last.name}) =>
        /\ session_state.resume_results = last.was.resume_results
        /\ session_state.undo_buffer = last.was.undo_buffer

C30_UndoRestoresLastDelete == UndoRestores /\ UndoOfNothing /\ RenameToNameInUse

====
